---- MODULE Spec2Model ----
(***************************************************************************)
(* Model of the gergy-mcp shared infrastructure: the Cost Tracker          *)
(* (CostTrackingService), the tool dispatch pipeline (BaseMCPServer) and   *)
(* the tools/call transport boundary of the financial server.              *)
(*                                                                         *)
(* Money is counted in integer units of 1e-8 dollar, so that               *)
(*   (tokens / 1000) * rate_per_1k  =  tokens * (rate_per_1k * 1e5) units  *)
(* is exact; a threshold fraction f is written as the integer 10 * f.      *)
(***************************************************************************)
EXTENDS Integers, Sequences, FiniteSets, Bags, TLC

\* ------------------------------------------------------------------ bounds
MaxCalls == 2      \* track_api_usage coroutines that may be in flight at once
MaxEvents == 3     \* rows the api_usage_analytics table may hold
MaxResets == 1     \* reset_daily_alerts calls

\* ------------------------------------------------------- program constants
\* CostTrackingService.__init__(daily_budget_limit): 0.005 dollar, in units.
DailyBudgetLimit == 500000

Servers == {"gergy-financial", "gergy-family"}

\* class APIProvider(Enum): the values the enum accepts.
APIProvider == {"openai", "anthropic", "google", "azure", "custom"}

\* str.lower() on the provider strings the model feeds in.
Lower(s) ==
  CASE s = "OpenAI" -> "openai"
    [] s = "Budget" -> "budget"
    [] OTHER -> s

\* _initialize_cost_rates: rate_key |-> <<input, output>> rate per 1k tokens,
\* times 1e5.  The key is f"{provider}_{model}", modelled as the pair.
CostRateTable ==
  [k \in { <<"openai", "gpt-4">>, <<"openai", "gpt-4-turbo">>,
           <<"openai", "gpt-3.5-turbo">>, <<"anthropic", "claude-3-opus">>,
           <<"anthropic", "claude-3-sonnet">>, <<"anthropic", "claude-3-haiku">>,
           <<"google", "gemini-pro">>, <<"google", "gemini-ultra">>,
           <<"azure", "gpt-4">>, <<"azure", "gpt-35-turbo">> } |->
     CASE k = <<"openai", "gpt-4">> -> <<3000, 6000>>
       [] k = <<"openai", "gpt-4-turbo">> -> <<1000, 3000>>
       [] k = <<"openai", "gpt-3.5-turbo">> -> <<100, 200>>
       [] k = <<"anthropic", "claude-3-opus">> -> <<1500, 7500>>
       [] k = <<"anthropic", "claude-3-sonnet">> -> <<300, 1500>>
       [] k = <<"anthropic", "claude-3-haiku">> -> <<25, 125>>
       [] k = <<"google", "gemini-pro">> -> <<100, 200>>
       [] k = <<"google", "gemini-ultra">> -> <<1000, 3000>>
       [] k = <<"azure", "gpt-4">> -> <<3000, 6000>>
       [] k = <<"azure", "gpt-35-turbo">> -> <<100, 200>>]

\* CostRates(0.001, 0.002, provider_enum, model): rates for unknown models.
DefaultRates == <<100, 200>>

\* The thresholds list of _check_budget_limits, as 10 * fraction, in list order.
Thresholds == <<5, 8, 9, 10>>
ThresholdSet == {Thresholds[i] : i \in 1..Len(Thresholds)}

\* f"{server_name}_{threshold}": the key kept in alerts_sent.
AlertKey(server, t) == <<server, t>>

\* The arguments the callers of track_api_usage supply in this model.
UsageInputs ==
  { [provider |-> "custom",    model |-> "my-model",       input_tokens |-> 1000, output_tokens |-> 0],
    [provider |-> "OpenAI",    model |-> "gpt-4",          input_tokens |-> 100,  output_tokens |-> 0],
    [provider |-> "anthropic", model |-> "claude-3-haiku", input_tokens |-> 2000, output_tokens |-> 0],
    [provider |-> "internal",  model |-> "tool-call",      input_tokens |-> 9,    output_tokens |-> 100] }

\* Token counts for the calls that go through the whole rate table.
MaxTokens == 2
TokenCounts == {0, 1} \cup {1000 * n : n \in 1..MaxTokens}

\* track_api_usage arguments for every key of the rate table, one of them with
\* the provider in capitals.
RateInputs ==
  { [provider |-> k[1], model |-> k[2], input_tokens |-> i, output_tokens |-> o] :
      k \in DOMAIN CostRateTable \cup {<<"OpenAI", "gpt-4">>},
      i \in TokenCounts, o \in TokenCounts }

\* The (server_name, arguments) pairs of the calls made in this model.
UsageCalls ==
  {<<"gergy-financial", inp>> : inp \in UsageInputs} \cup
  {<<"gergy-family", inp>> : inp \in {i \in UsageInputs : i.provider = "OpenAI"}}

\* The calls that are interleaved with each other: one server, two costs.
ConcUsageCalls ==
  {call \in UsageCalls : call[1] = "gergy-financial" /\ call[2].provider \in {"OpenAI", "custom"}}

\* ---------------------------------------------------- dispatch pipeline
MaxInvocations == 2   \* wrapped_handler invocations

\* BaseMCPServer.server_name = f"gergy-{domain_name}" of the financial server.
ServerName == "gergy-financial"

\* What initialize() registers, cut to two tools: name and raw handler.
Registrations ==
  { [name |-> "get_financial_summary", handler |-> "_handle_financial_summary"],
    [name |-> "search_knowledge", handler |-> "_handle_knowledge_search"] }
ToolNames == {r.name : r \in Registrations}
Handlers == {r.handler : r \in Registrations}

\* The keyword arguments of a call: the keys present and len(json.dumps(kwargs)).
\*   {"query": "budget $500 for vacation"}  and  {}
KwargsKinds ==
  { [fields |-> {"query"}, json_len |-> 36],
    [fields |-> {},        json_len |-> 2] }

\* What the raw handler does with the arguments: raise, or return a result that
\* is or is not a dict/str of at least 50 characters.
HandlerBehaviours ==
  { [raises |-> TRUE,  substantial |-> FALSE],
    [raises |-> FALSE, substantial |-> FALSE],
    [raises |-> FALSE, substantial |-> TRUE] }

\* The collaborators that are failing while one invocation runs.
FaultScenarios == { {}, {"pattern"}, {"redis"}, {"cache_meta"}, {"knowledge"} }

\* ------------------------------------------------------ pattern detector
MaxHistory == 3    \* trigger_history entries over all sessions

\* Confidence values are counted in units of 1/900, in which every score the
\* templates can give (thirds times 0.6, fifths and sixths times 0.4) is whole.
ConfidenceUnit == 900

\* _initialize_pattern_templates.  time_window is in days.
PatternTemplates ==
  [financial_planning_event |->
     [triggers |-> {"budget", "expense", "investment", "savings", "financial goal"},
      domains |-> {"financial", "family", "lifestyle"},
      time_window |-> 1, min_domains |-> 2, confidence_threshold |-> 630],
   home_improvement_project |->
     [triggers |-> {"renovation", "repair", "improvement", "maintenance", "contractor"},
      domains |-> {"home", "financial", "family"},
      time_window |-> 7, min_domains |-> 2, confidence_threshold |-> 540],
   family_activity_planning |->
     [triggers |-> {"vacation", "trip", "event", "celebration", "activity"},
      domains |-> {"family", "financial", "lifestyle"},
      time_window |-> 3, min_domains |-> 2, confidence_threshold |-> 720],
   career_development |->
     [triggers |-> {"promotion", "job", "career", "skill", "training", "certification"},
      domains |-> {"professional", "financial", "lifestyle"},
      time_window |-> 14, min_domains |-> 2, confidence_threshold |-> 630],
   health_lifestyle_change |->
     [triggers |-> {"health", "fitness", "diet", "exercise", "wellness"},
      domains |-> {"lifestyle", "family", "financial"},
      time_window |-> 5, min_domains |-> 2, confidence_threshold |-> 540]]

\* The templates in the order the dict is iterated.
TemplateOrder ==
  <<"financial_planning_event", "home_improvement_project", "family_activity_planning",
    "career_development", "health_lifestyle_change">>
TemplateNames == DOMAIN PatternTemplates

\* analyze_conversation line 112: `pattern.confidence >= 0.6`.
StoreConfidence == 540

\* The texts handed to analyze_conversation: the template phrases each one
\* holds as written, and whether one of the regexes of lines 128-131 finds an
\* amount in the lower-cased text.
Contents ==
  { [text |-> "budget $500 for vacation", phrases |-> {"budget", "vacation"}, amount |-> TRUE],
    [text |-> "Budget and savings",       phrases |-> {"Budget", "savings"},  amount |-> FALSE],
    [text |-> "plan a trip",              phrases |-> {"trip"},               amount |-> FALSE],
    [text |-> "renovation and repair",    phrases |-> {"renovation", "repair"}, amount |-> FALSE],
    [text |-> "hello",                    phrases |-> {},                     amount |-> FALSE] }

\* The sessions analyze_conversation is called for.
Sessions == {"default", "session-1"}

\* The (content, domain, session_id) of the analyze_conversation calls made.
PatternCalls ==
  {<<c, d, "default">> : c \in {x \in Contents : x.phrases \cap {"budget", "Budget", "trip"} # {}},
                         d \in {"financial", "family"}}
    \cup {<<c, "home", "default">> : c \in {x \in Contents : x.phrases \cap {"trip", "repair"} # {}}}
    \cup {<<c, "financial", s>> : c \in {x \in Contents : x.phrases = {}}, s \in Sessions}
    \cup {<<c, "financial", "session-1">> : c \in {x \in Contents : x.amount}}

\* Days by which the clock moves at once, and the age after which an entry is
\* outside every template's time window.
ClockStepDays == 4
OldestAge == 16

\* The analyze_conversation calls made where cleanup_old_patterns runs too.
CleanupCalls == {call \in PatternCalls : call[1].phrases \subseteq {"Budget", "savings"}}

\* The analyze_conversation calls that are in flight together: one session's.
ConcPatternCalls == {call \in CleanupCalls : call[3] = "default"}

\* The days_old handed to cleanup_old_patterns.
DaysOldInputs == {2, 4, 14}

\* The analyze_conversation coroutines that can be in flight together.
PatternSlots == {1, 2}
IdleAnalysis == [pc |-> "idle", session |-> "none", to_store |-> {}]

\* ------------------------------------------------------------- cache service
\* CacheService.__init__: default_ttl, in seconds.
DefaultTtl == 3600

\* A string is held as the sequence of its parts between ':' characters, so
\* that joining with ':' is concatenation; None is the string "None".
SetCalls ==
  { [key |-> <<"k">>, value |-> "v1", domain |-> <<"financial">>, ttl |-> <<>>,
     cross_domain_relevance |-> {}],
    [key |-> <<"k">>, value |-> "v2", domain |-> <<"financial">>, ttl |-> <<0>>,
     cross_domain_relevance |-> {<<"family">>}],
    [key |-> <<"k">>, value |-> "v1", domain |-> <<"financial", "eu">>, ttl |-> <<1800>>,
     cross_domain_relevance |-> {<<"family">>}],
    [key |-> <<"search_knowledge", "h1">>, value |-> "v2", domain |-> <<"financial">>,
     ttl |-> <<1800>>, cross_domain_relevance |-> {<<"family">>, <<"lifestyle">>}] }

\* The (key, domain) a value is read, deleted or produced for.
KeyCalls == {<<c.key, c.domain>> : c \in SetCalls}
CacheDomains == {c.domain : c \in SetCalls} \cup {<<"family">>}

\* The value_func handed to get_or_set: what it returns, or that it raises.
Producers == {[value |-> "p1", raises |-> FALSE], [value |-> "None", raises |-> TRUE]}

\* What fails while an operation runs: the Redis server, the database.
CacheFaultSets == {{}, {"redis"}, {"db"}}

\* The same, and pickle: dumps raises on the value handed to set, loads raises
\* on the bytes Redis holds under the key.
StatsFaultSets == CacheFaultSets \cup {{"pickle"}}

\* Seconds by which the clock moves at once.
CacheClockStep == 1800
MaxCacheClock == 3600
MaxCacheOps == 3

NoReply == [op |-> "none", value |-> "None", ok |-> FALSE, count |-> 0,
            suggestions |-> <<>>, raised |-> FALSE, produced |-> 0]

NoAnalysis == [outcome |-> "none", session |-> "none", returned |-> <<>>, stored |-> {}]

VARIABLES
  usage_rows,     \* bag of api_usage_analytics rows [server, cost, recent]
  alerts_sent,    \* CostTrackingService.alerts_sent
  knowledge,      \* bag of knowledge_items rows
  tc,             \* the track_api_usage coroutines: slot |-> frame
  emitted,        \* history: alert rows written per key since the last reset
  resets,         \* history: reset_daily_alerts calls so far
  tools,          \* BaseMCPServer.tools: name |-> raw handler ("none": absent)
  wrapped,        \* the closures handed to FastMCP.add_tool: <<name, handler>>
  request_count,  \* BaseMCPServer.request_count
  error_count,    \* BaseMCPServer.error_count
  inv,            \* the wrapped_handler coroutine and what its caller saw
  transport,      \* the last response of the tools/call endpoint
  redis_client,   \* CacheService.redis_client is set (FALSE: None)
  cache_store,    \* cache keys holding a value (Redis or local_cache)
  cache_metadata, \* cache keys with a temporal_cache row
  cache_stats,    \* CacheService.cache_stats
  local_cache,    \* CacheService.local_cache: the CacheEntry objects it holds
  redis_data,     \* the keys the Redis server holds, each with value and expiry
  temporal_cache, \* the rows of table temporal_cache
  cache_now,      \* datetime.utcnow() as the cache and its stores see it, seconds
  cache_ops,      \* history: cache operations called so far
  cache_reply,    \* what the last cache operation gave its caller
  trigger_history, \* PatternRecognitionService.trigger_history: session |-> entries
  trigger_sessions, \* the keys the trigger_history dict holds
  ac,             \* the analyze_conversation coroutines in flight: slot |-> frame
  appended,       \* history: session |-> the entries appended, `cut` once a
                  \* cleanup found them older than its cutoff
  pattern_rows,   \* cross_domain_patterns rows: <<pattern_name, confidence_score>>
  analysis        \* what the last analyze_conversation call gave its caller

trackerVars == <<usage_rows, alerts_sent, knowledge, tc, emitted, resets>>
registryVars == <<tools, wrapped>>
cacheDataVars == <<local_cache, redis_data, temporal_cache, cache_now, cache_ops, cache_reply>>
cacheVars == <<redis_client, cache_store, cache_metadata, cache_stats, local_cache, redis_data,
               temporal_cache, cache_now, cache_ops, cache_reply>>
patternVars == <<trigger_history, trigger_sessions, ac, appended, pattern_rows, analysis>>
vars == <<usage_rows, alerts_sent, knowledge, tc, emitted, resets, tools, wrapped,
          request_count, error_count, inv, transport, redis_client, cache_store,
          cache_metadata, cache_stats, local_cache, redis_data, temporal_cache, cache_now,
          cache_ops, cache_reply, trigger_history, trigger_sessions, ac, appended,
          pattern_rows, analysis>>

Calls == 1..MaxCalls
SeqCalls == {1}

IdleFrame ==
  [pc |-> "idle", caller |-> "api", server |-> "", cost |-> 0, daily |-> 0,
   idx |-> 0, exc |-> "none", inp |-> "none"]

Finished(c) == tc[c].pc \in {"idle", "returned", "raised"}
NoCallInFlight == \A c \in Calls : Finished(c)

IdleInvocation ==
  [pc |-> "idle", tool |-> "none", handler |-> "none", kw |-> "none",
   hb |-> "none", faults |-> {}, steps |-> <<>>, failed |-> "none",
   exc |-> "none", errs |-> 0]

InvocationOver == inv.pc \in {"idle", "returned", "raised"}

\* ------------------------------------------------------------- operators

\* APIProvider(provider.lower()): the member, or ValueError.
ProviderEnum(provider) ==
  IF Lower(provider) \in APIProvider THEN Lower(provider) ELSE "ValueError"

\* RatesFor with the lookup of lines 90-91 left out.
RatesFor_AlwaysDefault(provider, model) ==
  DefaultRates

\* Lines 87-95: the table's rates for the key, the default rates on a miss.
RatesFor(provider, model) ==
  LET rate_key == <<Lower(provider), model>>
  IN IF rate_key \in DOMAIN CostRateTable THEN CostRateTable[rate_key]
     ELSE DefaultRates

\* Lines 98-100: total_cost.
TotalCostOf(inp) ==
  LET rates == RatesFor(inp.provider, inp.model)
  IN inp.input_tokens * rates[1] + inp.output_tokens * rates[2]

RECURSIVE SumCost(_, _)
SumCost(rows, left) ==
  IF left = {} THEN 0
  ELSE LET r == CHOOSE x \in left : TRUE
       IN r.cost * CopiesIn(r, rows) + SumCost(rows, left \ {r})

\* get_api_usage_summary(server_name, days=1)['total_cost'].
DailyTotalCost(rows, server) ==
  SumCost(rows, {r \in BagToSet(rows) : r.recent /\ r.server = server})

\* ThresholdDue without the comparison with the daily cost.
ThresholdDue_IgnoresCost(server, daily, t, sent) ==
  AlertKey(server, t) \notin sent

\* The loop condition of _check_budget_limits for one threshold.
ThresholdDue(server, daily, t, sent) ==
  /\ daily * 10 >= DailyBudgetLimit * t
  /\ AlertKey(server, t) \notin sent

\* The loop of _check_budget_limits run from list position `from` up to its
\* next await: the position of the first threshold to alert for, 0 if none.
NextDue(server, daily, from, sent) ==
  LET due == {i \in from..Len(Thresholds) : ThresholdDue(server, daily, Thresholds[i], sent)}
  IN IF due = {} THEN 0 ELSE CHOOSE i \in due : \A j \in due : i <= j

AlertRecord(server, t) ==
  [domain |-> "system", type |-> "budget_alert", server |-> server, threshold |-> t]

\* ---------------------------------------------------------------- actions

Init ==
  /\ usage_rows = EmptyBag
  /\ alerts_sent = {}
  /\ knowledge = EmptyBag
  /\ tc = [c \in Calls |-> IdleFrame]
  /\ emitted = [k \in Servers \X ThresholdSet |-> 0]
  /\ resets = 0
  /\ tools = [n \in ToolNames |-> "none"]
  /\ wrapped = {}
  /\ request_count = 0
  /\ error_count = 0
  /\ inv = IdleInvocation
  /\ transport = [tick |-> FALSE, req |-> "none", status |-> 0, ran |-> FALSE]
  /\ redis_client = FALSE
  /\ cache_store = {}
  /\ cache_metadata = {}
  /\ cache_stats = [hits |-> 0, misses |-> 0, sets |-> 0, deletes |-> 0, errors |-> 0]
  /\ local_cache = {}
  /\ redis_data = {}
  /\ temporal_cache = {}
  /\ cache_now = 0
  /\ cache_ops = 0
  /\ cache_reply = NoReply
  /\ trigger_history = [s \in Sessions |-> <<>>]
  /\ trigger_sessions = {}
  /\ ac = [c \in PatternSlots |-> IdleAnalysis]
  /\ appended = [s \in Sessions |-> <<>>]
  /\ pattern_rows = {}
  /\ analysis = NoAnalysis

\* "query" in kwargs or "context" in kwargs (line 208).
HasText(kw) == "query" \in kw.fields \/ "context" \in kw.fields

\* wrapped_handler lines 225-228: count the error and re-raise it as it is.
ExceptFrom(base, exc, step) ==
  /\ error_count' = error_count + 1
  /\ inv' = [base EXCEPT !.pc = "raised", !.exc = exc, !.failed = step,
                         !.errs = @ + 1]

\* wrapped_handler lines 207-215 once _track_tool_usage has returned: pattern
\* analysis when the arguments carry text, else the handler.
AfterTracking ==
  /\ inv' = IF HasText(inv.kw)
            THEN [inv EXCEPT !.pc = "pattern", !.steps = Append(@, "pattern")]
            ELSE [inv EXCEPT !.pc = "handler", !.steps = Append(@, "handler")]
  /\ UNCHANGED error_count

\* track_api_usage lines 86-113, up to the await of _store_usage: the frame
\* the coroutine is left in.
StartFrame(caller, server, inp) ==
  IF ProviderEnum(inp.provider) = "ValueError"
  THEN [IdleFrame EXCEPT !.pc = "raised", !.exc = "ValueError", !.caller = caller,
                         !.server = server, !.inp = inp]
  ELSE [IdleFrame EXCEPT !.pc = "store", !.caller = caller, !.server = server,
                         !.inp = inp, !.cost = TotalCostOf(inp)]

\* track_api_usage ends (return usage, or an exception leaves it): the frame
\* keeps what its caller sees, and a pipeline caller goes on.
EndCall(c, pc, exc) ==
  /\ tc' = [tc EXCEPT ![c] = [IdleFrame EXCEPT !.pc = pc, !.exc = exc,
                                !.caller = tc[c].caller, !.server = tc[c].server,
                                !.inp = tc[c].inp]]
  /\ IF tc[c].caller = "pipeline"
     THEN IF pc = "raised" THEN ExceptFrom(inv, exc, "track") ELSE AfterTracking
     ELSE UNCHANGED <<inv, error_count>>

\* A caller of the Cost Tracker calls track_api_usage.
TrackApiUsage(c, server, inp) ==
  /\ Finished(c)
  /\ tc' = [tc EXCEPT ![c] = StartFrame("api", server, inp)]
  /\ UNCHANGED <<usage_rows, alerts_sent, knowledge, emitted, resets, inv, error_count,
                 request_count, transport, registryVars, cacheVars, patternVars>>

\* _store_usage: the row is committed, or the session raises.
StoreUsage(c) ==
  /\ tc[c].pc = "store"
  /\ \E ok \in BOOLEAN :
       IF ok
       THEN /\ BagCardinality(usage_rows) < MaxEvents
            /\ usage_rows' = usage_rows (+)
                 SetToBag({[server |-> tc[c].server, cost |-> tc[c].cost, recent |-> TRUE]})
            /\ tc' = [tc EXCEPT ![c].pc = "read"]
            /\ UNCHANGED <<inv, error_count>>
       ELSE /\ usage_rows' = usage_rows
            /\ EndCall(c, "raised", "DatabaseError")
  /\ UNCHANGED <<alerts_sent, knowledge, emitted, resets,
                 request_count, transport, registryVars, cacheVars, patternVars>>

\* get_daily_usage(server_name): the summary query.
GetDailyUsage(c) ==
  /\ tc[c].pc = "read"
  /\ \E ok \in BOOLEAN :
       IF ok
       THEN /\ tc' = [tc EXCEPT ![c].pc = "check",
                                ![c].daily = DailyTotalCost(usage_rows, tc[c].server)]
            /\ UNCHANGED <<inv, error_count>>
       ELSE EndCall(c, "raised", "DatabaseError")
  /\ UNCHANGED <<usage_rows, alerts_sent, knowledge, emitted, resets,
                 request_count, transport, registryVars, cacheVars, patternVars>>

\* The threshold loop of _check_budget_limits from list position `from`, with
\* alerts_sent = sent, to its next await (pc "send") or to its end, where
\* track_api_usage returns.
LoopFrom(c, from, sent) ==
  LET i == NextDue(tc[c].server, tc[c].daily, from, sent)
  IN IF i = 0 THEN EndCall(c, "returned", "none")
     ELSE /\ tc' = [tc EXCEPT ![c].pc = "send", ![c].idx = i]
          /\ UNCHANGED <<inv, error_count>>

\* _check_budget_limits after the summary arrived: the loop up to the first
\* await of _send_budget_alert.
CheckBudgetLimits(c) ==
  /\ tc[c].pc = "check"
  /\ LoopFrom(c, 1, alerts_sent)
  /\ UNCHANGED <<usage_rows, alerts_sent, knowledge, emitted, resets,
                 request_count, transport, registryVars, cacheVars, patternVars>>

\* SendBudgetAlert with a failure of store_knowledge caught: the loop goes on
\* to line 161 as if the row had been written.
SendBudgetAlert_SwallowsFailure(c) ==
  /\ tc[c].pc = "send"
  /\ \E ok \in BOOLEAN :
       IF ok
       THEN LET key == <<tc[c].server, Thresholds[tc[c].idx]>>
            IN /\ knowledge' = knowledge (+)
                     SetToBag({AlertRecord(tc[c].server, Thresholds[tc[c].idx])})
               /\ emitted' = [emitted EXCEPT ![key] = @ + 1]
               /\ tc' = [tc EXCEPT ![c].pc = "mark"]
               /\ UNCHANGED <<inv, error_count>>
       ELSE /\ tc' = [tc EXCEPT ![c].pc = "mark"]
            /\ UNCHANGED <<knowledge, emitted, inv, error_count>>
  /\ UNCHANGED <<usage_rows, alerts_sent, resets,
                 request_count, transport, registryVars, cacheVars, patternVars>>

\* _send_budget_alert: store_knowledge writes the alert row, or raises.
SendBudgetAlert(c) ==
  /\ tc[c].pc = "send"
  /\ \E ok \in BOOLEAN :
       IF ok
       THEN LET key == <<tc[c].server, Thresholds[tc[c].idx]>>
            IN /\ knowledge' = knowledge (+)
                     SetToBag({AlertRecord(tc[c].server, Thresholds[tc[c].idx])})
               /\ emitted' = [emitted EXCEPT ![key] = @ + 1]
               /\ tc' = [tc EXCEPT ![c].pc = "mark"]
               /\ UNCHANGED <<inv, error_count>>
       ELSE /\ EndCall(c, "raised", "DatabaseError")
            /\ UNCHANGED <<knowledge, emitted>>
  /\ UNCHANGED <<usage_rows, alerts_sent, resets,
                 request_count, transport, registryVars, cacheVars, patternVars>>

\* AlertsSentAdd with the add of line 161 left out.
AlertsSentAdd_Forgets(c) ==
  /\ tc[c].pc = "mark"
  /\ alerts_sent' = alerts_sent
  /\ LoopFrom(c, tc[c].idx + 1, alerts_sent')
  /\ UNCHANGED <<usage_rows, knowledge, emitted, resets,
                 request_count, transport, registryVars, cacheVars, patternVars>>

\* Line 161, alerts_sent.add, and the loop on to its next await.
AlertsSentAdd(c) ==
  /\ tc[c].pc = "mark"
  /\ alerts_sent' = alerts_sent \cup {AlertKey(tc[c].server, Thresholds[tc[c].idx])}
  /\ LoopFrom(c, tc[c].idx + 1, alerts_sent')
  /\ UNCHANGED <<usage_rows, knowledge, emitted, resets,
                 request_count, transport, registryVars, cacheVars, patternVars>>

\* ResetDailyAlerts with the clear() of line 307 left out.
ResetDailyAlerts_KeepsSet ==
  /\ resets < MaxResets
  /\ alerts_sent' = alerts_sent
  /\ emitted' = [k \in Servers \X ThresholdSet |-> 0]
  /\ resets' = resets + 1
  /\ UNCHANGED <<usage_rows, knowledge, tc, inv, error_count,
                 request_count, transport, registryVars, cacheVars, patternVars>>

\* reset_daily_alerts.
ResetDailyAlerts ==
  /\ resets < MaxResets
  /\ alerts_sent' = {}
  /\ emitted' = [k \in Servers \X ThresholdSet |-> 0]
  /\ resets' = resets + 1
  /\ UNCHANGED <<usage_rows, knowledge, tc, inv, error_count,
                 request_count, transport, registryVars, cacheVars, patternVars>>

\* Time passes: every stored row falls out of the trailing one-day window of
\* get_api_usage_summary (date >= utcnow() - timedelta(days=1)).
ClockAdvance ==
  /\ \E r \in BagToSet(usage_rows) : r.recent
  /\ usage_rows' = LET old == {[r EXCEPT !.recent = FALSE] : r \in BagToSet(usage_rows)}
                   IN [r \in old |->
                        (IF r \in BagToSet(usage_rows) THEN CopiesIn(r, usage_rows) ELSE 0) +
                        CopiesIn([r EXCEPT !.recent = TRUE], usage_rows)]
  /\ UNCHANGED <<alerts_sent, knowledge, tc, emitted, resets, inv, error_count,
                 request_count, transport, registryVars, cacheVars, patternVars>>

TrackerStep(c) ==
  StoreUsage(c) \/ GetDailyUsage(c) \/ CheckBudgetLimits(c)
    \/ SendBudgetAlert(c) \/ AlertsSentAdd(c)

\* One caller at a time: a call, or a reset, starts when no call is in flight.
Next ==
  \/ \E c \in SeqCalls, call \in UsageCalls :
       NoCallInFlight /\ TrackApiUsage(c, call[1], call[2])
  \/ \E c \in SeqCalls : TrackerStep(c)
  \/ NoCallInFlight /\ ResetDailyAlerts
  \/ ClockAdvance

Spec == Init /\ [][Next]_vars

\* The rate table under every key and a range of token counts: a first call on
\* an empty usage table, carried to its end.
NextRates ==
  \/ \E c \in SeqCalls, inp \in RateInputs :
       /\ NoCallInFlight /\ usage_rows = EmptyBag
       /\ TrackApiUsage(c, ServerName, inp)
  \/ \E c \in SeqCalls : TrackerStep(c)

SpecRates == Init /\ [][NextRates]_vars

\* Calls interleave at their awaits; the reset may run between any two steps.
NextConc ==
  \/ \E c \in Calls, call \in ConcUsageCalls : TrackApiUsage(c, call[1], call[2])
  \/ \E c \in Calls : TrackerStep(c)
  \/ ResetDailyAlerts
  \/ ClockAdvance

SpecConc == Init /\ [][NextConc]_vars

\* ------------------------------------------------------ pattern detector

\* Every trigger phrase of every template.
AllTemplateTriggers == UNION {PatternTemplates[n].triggers : n \in TemplateNames}

\* _extract_triggers: the template phrases found in content.lower(), and
\* 'financial_amount' when a regex matches; list(set(...)) drops repeats.
ExtractTriggers(content) ==
  {t \in AllTemplateTriggers : t \in {Lower(w) : w \in content.phrases}}
    \cup (IF content.amount THEN {"financial_amount"} ELSE {})

Min(a, b) == IF a <= b THEN a ELSE b

\* MatchedCount with the matched triggers counted once however many entries
\* hold them.
MatchedCount_Deduplicated(history, template, left) ==
  Cardinality(UNION {history[i].triggers \cap template.triggers : i \in left})

RECURSIVE MatchedCount(_, _, _)
\* len(matched_triggers): the matches of every entry in `left`, added up as the
\* loop of lines 178-184 extends the list entry by entry.
MatchedCount(history, template, left) ==
  IF left = {} THEN 0
  ELSE LET i == CHOOSE x \in left : TRUE
       IN Cardinality(history[i].triggers \cap template.triggers)
            + MatchedCount(history, template, left \ {i})

\* Lines 194-198: (domain_score * 0.6) + (trigger_score * 0.4), in 1/900.
Confidence(template, domain_coverage, trigger_frequency) ==
  LET max_possible_domains == Cardinality(template.domains)
      n_triggers == Cardinality(template.triggers)
  IN (540 * Min(domain_coverage, max_possible_domains)) \div max_possible_domains
       + (360 * Min(trigger_frequency, n_triggers)) \div n_triggers

\* max(entry['timestamp'] for entry in among), named by the number of entries
\* appended after the entry that carries it (0: the newest entry of the list,
\* and 0 for an empty `among`): entries are stamped with utcnow() as they are
\* appended, so of two entries of the same age the later one in the list has
\* the later timestamp.
LastSeen(history, among) ==
  IF among = {} THEN 0
  ELSE LET newest == CHOOSE i \in among :
                       \A j \in among : \/ history[i].age < history[j].age
                                        \/ history[i].age = history[j].age /\ i >= j
       IN Len(history) - newest

\* Evaluate with the cutoff filter of lines 164-169 left out: every entry of
\* the history counts as recent.
Evaluate_NoCutoff(name, history) ==
  LET template == PatternTemplates[name]
      recent == 1..Len(history)
      hits == {i \in recent : history[i].triggers \cap template.triggers # {}}
      triggered_domains == {history[i].domain : i \in hits}
      trigger_frequency == MatchedCount(history, template, hits)
  IN [recent_entries |-> Cardinality(recent),
      domains |-> triggered_domains,
      triggers |-> UNION {history[i].triggers \cap template.triggers : i \in hits},
      frequency |-> trigger_frequency,
      confidence |-> Confidence(template, Cardinality(triggered_domains), trigger_frequency),
      last_seen |-> LastSeen(history, recent)]

\* Lines 160-209 of _check_pattern_template: what one template sees in history.
Evaluate(name, history) ==
  LET template == PatternTemplates[name]
      recent == {i \in 1..Len(history) : history[i].age <= template.time_window}
      hits == {i \in recent : history[i].triggers \cap template.triggers # {}}
      triggered_domains == {history[i].domain : i \in hits}
      trigger_frequency == MatchedCount(history, template, hits)
  IN [recent_entries |-> Cardinality(recent),
      domains |-> triggered_domains,
      triggers |-> UNION {history[i].triggers \cap template.triggers : i \in hits},
      frequency |-> trigger_frequency,
      confidence |-> Confidence(template, Cardinality(triggered_domains), trigger_frequency),
      last_seen |-> LastSeen(history, recent)]

NonePattern ==
  [name |-> "None", domains |-> {}, triggers |-> {}, confidence |-> 0, frequency |-> 0,
   last_seen |-> 0]

\* CheckPatternTemplate without the min_domains test of lines 190-191.
CheckPatternTemplate_NoMinDomains(name, history) ==
  LET e == Evaluate(name, history)
      template == PatternTemplates[name]
  IN IF e.recent_entries = 0 THEN NonePattern
     ELSE IF e.confidence < template.confidence_threshold THEN NonePattern
     ELSE [name |-> name, domains |-> e.domains, triggers |-> e.triggers,
           confidence |-> e.confidence, frequency |-> e.frequency,
           last_seen |-> e.last_seen]

\* CheckPatternTemplate without the threshold test of lines 200-201.
CheckPatternTemplate_NoThreshold(name, history) ==
  LET e == Evaluate(name, history)
      template == PatternTemplates[name]
  IN IF e.recent_entries = 0 THEN NonePattern
     ELSE IF Cardinality(e.domains) < template.min_domains THEN NonePattern
     ELSE [name |-> name, domains |-> e.domains, triggers |-> e.triggers,
           confidence |-> e.confidence, frequency |-> e.frequency,
           last_seen |-> e.last_seen]

\* _check_pattern_template: the Pattern, or None.
CheckPatternTemplate(name, history) ==
  LET e == Evaluate(name, history)
      template == PatternTemplates[name]
  IN IF e.recent_entries = 0 THEN NonePattern
     ELSE IF Cardinality(e.domains) < template.min_domains THEN NonePattern
     ELSE IF e.confidence < template.confidence_threshold THEN NonePattern
     ELSE [name |-> name, domains |-> e.domains, triggers |-> e.triggers,
           confidence |-> e.confidence, frequency |-> e.frequency,
           last_seen |-> e.last_seen]

\* _detect_patterns: the patterns of the templates, in template order.
DetectPatterns(history) ==
  SelectSeq([i \in 1..Len(TemplateOrder) |-> CheckPatternTemplate(TemplateOrder[i], history)],
            LAMBDA p : p.name # "None")

\* AnalysisOf with the templates checked against the entries of every session.
AnalysisOf_AllSessions(content, domain, session_id) ==
  LET entry == [domain |-> domain, triggers |-> ExtractTriggers(content), age |-> 0]
      history == Append(trigger_history[session_id], entry)
      others == CHOOSE s \in Sessions : s # session_id
      detected == DetectPatterns(trigger_history[others] \o history)
  IN [history |-> history,
      detected |-> detected,
      to_store |-> {detected[i] : i \in {j \in 1..Len(detected) :
                                          detected[j].confidence >= StoreConfidence}}]

\* analyze_conversation lines 96-115 on the session's history: the history it
\* leaves, the patterns it detects and those it hands to _store_pattern.
AnalysisOf(content, domain, session_id) ==
  LET entry == [domain |-> domain, triggers |-> ExtractTriggers(content), age |-> 0]
      history == Append(trigger_history[session_id], entry)
      detected == DetectPatterns(history)
  IN [history |-> history,
      detected |-> detected,
      to_store |-> {detected[i] : i \in {j \in 1..Len(detected) :
                                          detected[j].confidence >= StoreConfidence}}]

RECURSIVE SumLen(_, _)
SumLen(th, left) ==
  IF left = {} THEN 0
  ELSE LET s == CHOOSE x \in left : TRUE IN Len(th[s]) + SumLen(th, left \ {s})

\* The entries of all sessions' histories together.
TotalEntries(th) == SumLen(th, Sessions)

\* analyze_conversation as a whole: db_ok tells whether store_cross_domain_pattern
\* commits or raises, in which case the call raises after the append.
AnalyzeEffect(content, domain, session_id, db_ok) ==
  LET a == AnalysisOf(content, domain, session_id)
      raised == ~db_ok /\ a.to_store # {}
  IN /\ trigger_history' = [trigger_history EXCEPT ![session_id] = a.history]
     /\ trigger_sessions' = trigger_sessions \cup {session_id}
     /\ UNCHANGED <<ac, appended>>
     /\ pattern_rows' = IF raised THEN pattern_rows
                        ELSE pattern_rows \cup {<<p.name, p.confidence>> : p \in a.to_store}
     /\ analysis' = [outcome |-> IF raised THEN "raised" ELSE "returned",
                     session |-> session_id,
                     returned |-> IF raised THEN <<>> ELSE a.detected,
                     stored |-> IF raised THEN {} ELSE {p.name : p \in a.to_store}]

AnalyzeConversation(content, domain, session_id, db_ok) ==
  /\ TotalEntries(trigger_history) < MaxHistory
  /\ AnalyzeEffect(content, domain, session_id, db_ok)
  /\ UNCHANGED <<trackerVars, registryVars, cacheVars, request_count, error_count,
                 inv, transport>>

\* ClockStepDays days pass: every entry of every history grows older.
PatternClockAdvance ==
  /\ \E s \in Sessions : \E i \in 1..Len(trigger_history[s]) :
       trigger_history[s][i].age < OldestAge
  /\ trigger_history' =
       [s \in Sessions |->
          [i \in 1..Len(trigger_history[s]) |->
             [trigger_history[s][i] EXCEPT !.age = Min(@ + ClockStepDays, OldestAge)]]]
  /\ UNCHANGED <<trackerVars, registryVars, cacheVars, request_count, error_count,
                 inv, transport, trigger_sessions, ac, pattern_rows, analysis>>
  /\ appended' =
       [s \in Sessions |->
          [i \in 1..Len(appended[s]) |->
             IF appended[s][i].cut THEN appended[s][i]
             ELSE [appended[s][i] EXCEPT !.age = Min(@ + ClockStepDays, OldestAge)]]]

\* The list comprehension of lines 325-328: the entries whose timestamp is not
\* before utcnow() - timedelta(days=days_old), in the order they had.
Retained_DropsCutoffEntry(history, days_old) ==
  SelectSeq(history, LAMBDA entry : entry.age < days_old)

Retained(history, days_old) ==
  SelectSeq(history, LAMBDA entry : entry.age <= days_old)

\* cleanup_old_patterns(days_old): every session's list is replaced by what is
\* retained of it, and a session left with an empty list is deleted.  The
\* coroutine has no await: it runs from start to end in one step.
CleanupOldPatterns(days_old) ==
  /\ trigger_history' =
       [s \in Sessions |->
          IF s \in trigger_sessions THEN Retained(trigger_history[s], days_old)
          ELSE trigger_history[s]]
  /\ trigger_sessions' = {s \in trigger_sessions : Retained(trigger_history[s], days_old) # <<>>}
  /\ appended' =
       [s \in Sessions |->
          [i \in 1..Len(appended[s]) |->
             [appended[s][i] EXCEPT !.cut = @ \/ appended[s][i].age > days_old]]]
  /\ UNCHANGED <<trackerVars, registryVars, cacheVars, request_count, error_count,
                 inv, transport, ac, pattern_rows, analysis>>

NextPattern ==
  \/ \E call \in PatternCalls, db_ok \in BOOLEAN :
       AnalyzeConversation(call[1], call[2], call[3], db_ok)
  \/ PatternClockAdvance

SpecPattern == Init /\ [][NextPattern]_vars

\* The analyze_conversation calls one server process makes (wrapped_handler
\* line 210-212): any content and session, with a caller-chosen domain.
ServerAnalyses_AnyDomain ==
  {<<c, d, s>> : c \in Contents, d \in {"financial", "family"}, s \in Sessions}

\* The analyze_conversation calls one server process makes (wrapped_handler
\* line 210-212): any content and session, always with self.domain_name.
ServerAnalyses == {<<c, "financial", s>> : c \in Contents, s \in Sessions}

\* The detector as one server process drives it.
NextServerPattern ==
  \/ \E call \in ServerAnalyses, db_ok \in BOOLEAN :
       AnalyzeConversation(call[1], call[2], call[3], db_ok)
  \/ PatternClockAdvance

SpecServerPattern == Init /\ [][NextServerPattern]_vars

\* analyze_conversation calls, the passing of time and cleanup_old_patterns
\* calls in any order.
NextCleanup ==
  \/ \E call \in CleanupCalls, db_ok \in BOOLEAN :
       AnalyzeConversation(call[1], call[2], call[3], db_ok)
  \/ PatternClockAdvance
  \/ \E days_old \in DaysOldInputs : CleanupOldPatterns(days_old)

SpecCleanup == Init /\ [][NextCleanup]_vars

\* --------------------------------------- pattern detector, interleaved
\* analyze_conversation and cleanup_old_patterns are coroutines of one event
\* loop: a coroutine runs alone from one await to the next.  Each await of
\* analyze_conversation is taken as a point where another coroutine may run.

AnalysisOver(c) == ac[c].pc \in {"idle", "returned", "raised"}

\* The entry of a call, in the history and in the log of appended entries.
EntryOf(call) == [domain |-> call[2], triggers |-> ExtractTriggers(call[1]), age |-> 0]
Logged(entry) == [domain |-> entry.domain, triggers |-> entry.triggers, age |-> entry.age,
                  cut |-> FALSE]

\* AnalyzeAppend where the append writes back the list as it was before the
\* append of a call of the same session that is still in flight.
AnalyzeAppend_OnStaleList(c, call) ==
  LET racing == \E o \in PatternSlots \ {c} : ~AnalysisOver(o) /\ ac[o].session = call[3]
      history == trigger_history[call[3]]
      base == IF racing THEN SubSeq(history, 1, Len(history) - 1) ELSE history
  IN /\ AnalysisOver(c)
     /\ TotalEntries(appended) < MaxHistory
     /\ trigger_history' = [trigger_history EXCEPT ![call[3]] = Append(base, EntryOf(call))]
     /\ trigger_sessions' = trigger_sessions \cup {call[3]}
     /\ appended' = [appended EXCEPT ![call[3]] = Append(@, Logged(EntryOf(call)))]
     /\ ac' = [ac EXCEPT ![c] = [pc |-> "detect", session |-> call[3], to_store |-> {}]]
     /\ UNCHANGED <<trackerVars, registryVars, cacheVars, request_count, error_count,
                    inv, transport, pattern_rows, analysis>>

\* analyze_conversation lines 93-108: extract the triggers, append the entry
\* to the session's list, await _detect_patterns.
AnalyzeAppend(c, call) ==
  /\ AnalysisOver(c)
  /\ TotalEntries(appended) < MaxHistory
  /\ trigger_history' = [trigger_history EXCEPT ![call[3]] = Append(@, EntryOf(call))]
  /\ trigger_sessions' = trigger_sessions \cup {call[3]}
  /\ appended' = [appended EXCEPT ![call[3]] = Append(@, Logged(EntryOf(call)))]
  /\ ac' = [ac EXCEPT ![c] = [pc |-> "detect", session |-> call[3], to_store |-> {}]]
  /\ UNCHANGED <<trackerVars, registryVars, cacheVars, request_count, error_count,
                 inv, transport, pattern_rows, analysis>>

\* _detect_patterns (lines 139-151) and the test of line 112: reading
\* self.trigger_history[session_id] puts the key back when a cleanup deleted
\* it; without a pattern to store the call returns.
AnalyzeDetect(c) ==
  /\ ac[c].pc = "detect"
  /\ LET detected == DetectPatterns(trigger_history[ac[c].session])
         to_store == {detected[i] : i \in {j \in 1..Len(detected) :
                                             detected[j].confidence >= StoreConfidence}}
     IN /\ trigger_sessions' = trigger_sessions \cup {ac[c].session}
        /\ ac' = [ac EXCEPT ![c].pc = IF to_store = {} THEN "returned" ELSE "store",
                             ![c].to_store = to_store]
  /\ UNCHANGED <<trackerVars, registryVars, cacheVars, request_count, error_count,
                 inv, transport, trigger_history, appended, pattern_rows, analysis>>

\* Lines 111-115: _store_pattern for the patterns to store, then the return;
\* a failing store_cross_domain_pattern (db_ok FALSE) ends the call with its
\* exception.
AnalyzeStore(c, db_ok) ==
  /\ ac[c].pc = "store"
  /\ IF db_ok
     THEN /\ pattern_rows' = pattern_rows \cup {<<p.name, p.confidence>> : p \in ac[c].to_store}
          /\ ac' = [ac EXCEPT ![c].pc = "returned"]
     ELSE /\ ac' = [ac EXCEPT ![c].pc = "raised"]
          /\ UNCHANGED pattern_rows
  /\ UNCHANGED <<trackerVars, registryVars, cacheVars, request_count, error_count,
                 inv, transport, trigger_history, trigger_sessions, appended, analysis>>

NextPatternConc ==
  \/ \E c \in PatternSlots, call \in ConcPatternCalls : AnalyzeAppend(c, call)
  \/ \E c \in PatternSlots : AnalyzeDetect(c)
  \/ \E c \in PatternSlots, db_ok \in BOOLEAN : AnalyzeStore(c, db_ok)
  \/ PatternClockAdvance
  \/ \E days_old \in DaysOldInputs : CleanupOldPatterns(days_old)

SpecPatternConc == Init /\ [][NextPatternConc]_vars

\* ----------------------------------------------------- dispatch pipeline

\* CacheService.initialize, the first step of BaseMCPServer.initialize: the
\* client is kept when Redis answers the ping, and is None when it does not.
CacheInitialize ==
  /\ wrapped = {}
  /\ cache_ops = 0
  /\ \E ping \in BOOLEAN : redis_client' = ping
  /\ UNCHANGED <<trackerVars, registryVars, request_count, error_count, inv, transport,
                 cache_store, cache_metadata, cache_stats, cacheDataVars, patternVars>>

\* register_tool: the definition goes into self.tools, the wrapped handler to
\* FastMCP.add_tool.  add_tool is library code: for a name it holds already it
\* takes the new closure or keeps the one it has.
RegisterTool(reg) ==
  /\ tools' = [tools EXCEPT ![reg.name] = reg.handler]
  /\ LET held == {w \in wrapped : w[1] = reg.name}
     IN \/ wrapped' = (wrapped \ held) \cup {<<reg.name, reg.handler>>}
        \/ held # {} /\ wrapped' = wrapped
  /\ UNCHANGED <<trackerVars, request_count, error_count, inv, transport, cacheVars, patternVars>>

\* BaseMCPServer.domain_name of the financial server, and the session id that
\* wrapped_handler passes on: `self.current_session_id or "default"`.
DomainName == "financial"
SessionId == "default"

\* kwargs.get("query", kwargs.get("context", "")) of the calls made here.
QueryContent(kw) == CHOOSE c \in Contents : c.text = "budget $500 for vacation"

\* _track_tool_usage: the arguments it passes to track_api_usage.
TrackToolUsageArgs(tool_name, kw) ==
  [provider |-> "internal", model |-> "tool-call",
   input_tokens |-> kw.json_len \div 4, output_tokens |-> 100]

\* _cache_tool_result's key under _generate_cache_key:
\* f"gergy:{domain}:{tool_name}:{hash(json.dumps(arguments, sort_keys=True))}".
ToolCacheKey(tool_name, kw) == <<"financial", tool_name, kw>>

\* CacheService.set: what it returns and leaves behind.  A failing Redis write
\* is caught and counted; a failing metadata write is swallowed inside
\* _store_cache_metadata.
CacheSet(key, faults) ==
  IF redis_client /\ "redis" \in faults
  THEN [ok |-> FALSE, store |-> cache_store, metadata |-> cache_metadata,
        stats |-> [cache_stats EXCEPT !.errors = @ + 1]]
  ELSE [ok |-> TRUE, store |-> cache_store \cup {key},
        metadata |-> IF "cache_meta" \in faults THEN cache_metadata
                     ELSE cache_metadata \cup {key},
        stats |-> [cache_stats EXCEPT !.sets = @ + 1]]

ToolResultRecord(tool_name) ==
  [domain |-> "financial", type |-> "tool_result", server |-> tool_name, threshold |-> 0]

\* wrapped_handler(**kwargs) of the closure made for (name, handler): one step
\* of the coroutine, from where it stands to its next await.  While it awaits
\* _track_tool_usage (pc "track") the Cost Tracker's steps move it on.
WrappedHandler(c, name, handler, kw, hb, faults) ==
  CASE InvocationOver ->
         \* lines 200-205: count the request, call _track_tool_usage
         LET frame == StartFrame("pipeline", ServerName, TrackToolUsageArgs(name, kw))
             begun == [IdleInvocation EXCEPT !.pc = "track", !.tool = name,
                         !.handler = handler, !.kw = kw, !.hb = hb,
                         !.faults = faults, !.steps = <<"count", "track">>]
         IN /\ request_count < MaxInvocations
            /\ Finished(c)
            /\ request_count' = request_count + 1
            /\ tc' = [tc EXCEPT ![c] = frame]
            /\ IF frame.pc = "raised"
               THEN ExceptFrom(begun, frame.exc, "track")
               ELSE inv' = begun /\ UNCHANGED error_count
            /\ UNCHANGED <<usage_rows, alerts_sent, knowledge, emitted, resets,
                           transport, registryVars, cacheVars, patternVars>>
    [] inv.pc = "pattern" ->
         \* lines 208-215: analyze_conversation ends, the handler is called; with
         \* the pattern store failing, analyze_conversation raises when it stores
         /\ TotalEntries(trigger_history) < MaxHistory
         /\ AnalyzeEffect(QueryContent(inv.kw), DomainName, SessionId, "pattern" \notin inv.faults)
         /\ IF analysis'.outcome = "raised"
            THEN ExceptFrom(inv, "DatabaseError", "pattern")
            ELSE /\ inv' = [inv EXCEPT !.pc = "handler", !.steps = Append(@, "handler")]
                 /\ UNCHANGED error_count
         /\ UNCHANGED <<trackerVars, request_count, transport, registryVars, cacheVars>>
    [] inv.pc = "handler" ->
         \* lines 215-218: the handler ends, the result goes to the cache
         /\ IF inv.hb.raises
            THEN ExceptFrom(inv, "HandlerError", "handler")
            ELSE /\ inv' = [inv EXCEPT !.pc = "cache", !.steps = Append(@, "cache")]
                 /\ UNCHANGED error_count
         /\ UNCHANGED <<trackerVars, request_count, transport, registryVars, cacheVars, patternVars>>
    [] inv.pc = "cache" ->
         \* lines 218-223, 283-284: cache.set ends; a small result is returned
         \* without a knowledge write
         LET r == CacheSet(ToolCacheKey(inv.tool, inv.kw), inv.faults)
         IN /\ cache_store' = r.store
            /\ cache_metadata' = r.metadata
            /\ cache_stats' = r.stats
            /\ inv' = IF inv.hb.substantial
                      THEN [inv EXCEPT !.pc = "knowledge", !.steps = Append(@, "knowledge")]
                      ELSE [inv EXCEPT !.pc = "returned",
                                       !.steps = @ \o <<"knowledge", "return">>]
            /\ UNCHANGED <<trackerVars, request_count, error_count, transport,
                           registryVars, redis_client, cacheDataVars, patternVars>>
    [] inv.pc = "knowledge" ->
         \* lines 295-306, 223: store_knowledge ends, the result is returned
         /\ IF "knowledge" \in inv.faults
            THEN /\ ExceptFrom(inv, "DatabaseError", "knowledge")
                 /\ UNCHANGED knowledge
            ELSE /\ knowledge' = knowledge (+) SetToBag({ToolResultRecord(inv.tool)})
                 /\ inv' = [inv EXCEPT !.pc = "returned", !.steps = Append(@, "return")]
                 /\ UNCHANGED error_count
         /\ UNCHANGED <<usage_rows, alerts_sent, tc, emitted, resets, request_count,
                        transport, registryVars, cacheVars, patternVars>>
    [] OTHER -> FALSE

\* What a tools/call request asks for: no name, a name that is not a key of
\* self.tools, or a registered tool.
RequestKind(name) ==
  IF name = "" THEN "empty"
  ELSE IF name \in ToolNames /\ tools[name] # "none" THEN "registered"
  ELSE "unknown"

\* McpCallTool without the lookup of lines 569-570: tools[tool_name] raises
\* KeyError inside the try, which answers 500.
McpCallTool_NoLookup(name, hb) ==
  /\ transport' =
       [tick |-> ~transport.tick,
        req |-> RequestKind(name),
        status |-> IF name = "" THEN 400
                   ELSE IF name \notin ToolNames \/ tools[name] = "none" THEN 500
                   ELSE IF hb.raises THEN 500
                   ELSE 200,
        ran |-> name # "" /\ name \in ToolNames /\ tools[name] # "none"]
  /\ UNCHANGED <<trackerVars, registryVars, request_count, error_count, inv, cacheVars,
                 patternVars>>

\* mcp_call_tool (POST /financial/mcp/tools/call; the SSE tools/call branch and
\* POST /tools/{tool_name} do the same): tool.handler is the raw handler.
McpCallTool(name, hb) ==
  /\ transport' =
       [tick |-> ~transport.tick,
        req |-> RequestKind(name),
        status |-> IF name = "" THEN 400
                   ELSE IF name \notin ToolNames \/ tools[name] = "none" THEN 404
                   ELSE IF hb.raises THEN 500
                   ELSE 200,
        ran |-> name # "" /\ name \in ToolNames /\ tools[name] # "none"]
  /\ UNCHANGED <<trackerVars, registryVars, request_count, error_count, inv, cacheVars, patternVars>>

\* register_tool calls for a name twice, with two handlers.
AnyRegistrations ==
  Registrations \cup {[name |-> "search_knowledge", handler |-> "_handle_history_search"]}

\* The names the transport is asked for.
CallNames == ToolNames \cup {"unknown_tool", ""}

\* The one usage event other callers of the Cost Tracker record here.
PipelineUsageCall ==
  CHOOSE call \in UsageCalls : call[1] = ServerName /\ call[2].provider = "OpenAI"

NextPipeline ==
  \/ CacheInitialize
  \/ \E reg \in Registrations : RegisterTool(reg)
  \/ \E c \in SeqCalls, w \in wrapped, kw \in KwargsKinds, hb \in HandlerBehaviours,
        faults \in FaultScenarios :
       /\ InvocationOver => NoCallInFlight
       /\ WrappedHandler(c, w[1], w[2], kw, hb, faults)
  \/ \E name \in CallNames, hb \in HandlerBehaviours : McpCallTool(name, hb)
  \/ \E c \in SeqCalls :
       /\ NoCallInFlight /\ InvocationOver
       /\ TrackApiUsage(c, PipelineUsageCall[1], PipelineUsageCall[2])
  \/ \E c \in SeqCalls : TrackerStep(c)

SpecPipeline == Init /\ [][NextPipeline]_vars

\* The registry under any sequence of register_tool calls, with the calls that
\* reach the tools through FastMCP and through the tools/call endpoint.
NextRegistry ==
  \/ \E reg \in AnyRegistrations : RegisterTool(reg)
  \/ \E c \in SeqCalls, w \in wrapped, kw \in KwargsKinds, hb \in HandlerBehaviours,
        faults \in FaultScenarios :
       /\ InvocationOver /\ NoCallInFlight
       /\ WrappedHandler(c, w[1], w[2], kw, hb, faults)
  \/ \E name \in CallNames, hb \in HandlerBehaviours : McpCallTool(name, hb)

SpecRegistry == Init /\ [][NextRegistry]_vars

\* ------------------------------------------------------------- cache service

\* _generate_cache_key: f"gergy:{domain}:{key}".
GenerateCacheKey(domain, key) == <<"gergy">> \o domain \o key

\* One CacheService with its stores, as the operations take and leave it.
CacheState ==
  [redis_client |-> redis_client, redis |-> redis_data, local |-> local_cache,
   meta |-> temporal_cache, stats |-> cache_stats, now |-> cache_now]

\* self.cache_stats[counter] += 1
Bump(cs, counter) == [cs EXCEPT !.stats[counter] = @ + 1]

\* _update_access_count: the row's access_count grows by one; a failing
\* database is logged and swallowed (lines 332-333).
UpdateAccessCount(meta, cache_key, faults) ==
  IF "db" \in faults THEN meta
  ELSE {IF m.cache_key = cache_key THEN [m EXCEPT !.access_count = @ + 1] ELSE m : m \in meta}

\* get(key, domain): the state it leaves and the value it returns.  On a Redis
\* hit the counter grows at line 89, before pickle.loads runs at line 92
\* inside the same try block.
GetOf(cs, key, domain, faults) ==
  LET cache_key == GenerateCacheKey(domain, key)
      cached == {e \in cs.redis : e.key = cache_key /\ e.expires_at > cs.now}
      held == {e \in cs.local : e.key = cache_key}
  IN IF cs.redis_client
     THEN IF "redis" \in faults
          THEN [cs |-> Bump(cs, "errors"), value |-> "None"]
          ELSE IF cached # {} /\ "pickle" \in faults
          THEN [cs |-> [Bump(Bump(cs, "hits"), "errors") EXCEPT
                          !.meta = UpdateAccessCount(cs.meta, cache_key, faults)],
                value |-> "None"]
          ELSE IF cached # {}
          THEN [cs |-> [Bump(cs, "hits") EXCEPT
                          !.meta = UpdateAccessCount(cs.meta, cache_key, faults)],
                value |-> (CHOOSE e \in cached : TRUE).value]
          ELSE [cs |-> Bump(cs, "misses"), value |-> "None"]
     ELSE IF held # {} /\ \A e \in held : e.expires_at > cs.now
          THEN [cs |-> Bump(cs, "hits"), value |-> (CHOOSE e \in held : TRUE).value]
          ELSE [cs |-> [Bump(cs, "misses") EXCEPT !.local = cs.local \ held],
                value |-> "None"]

\* `ttl or self.default_ttl` (line 124): an omitted ttl and a ttl of 0 both
\* give the default.
TtlOr(ttl) == IF ttl = <<>> \/ ttl[1] = 0 THEN DefaultTtl ELSE ttl[1]

\* _store_cache_metadata: the row of cache_key is updated (expires_at and
\* cross_domain_relevance) or inserted; a failing database is logged and
\* swallowed (lines 316-317).
StoreCacheMetadata(meta, cache_key, domain, expires_at, cross_domain_relevance, now, faults) ==
  LET existing == {m \in meta : m.cache_key = cache_key}
  IN IF "db" \in faults THEN meta
     ELSE IF existing # {}
     THEN {IF m \in existing
           THEN [m EXCEPT !.expires_at = expires_at,
                          !.cross_domain_relevance = cross_domain_relevance]
           ELSE m : m \in meta}
     ELSE meta \cup {[cache_key |-> cache_key, domain |-> domain,
                      cross_domain_relevance |-> cross_domain_relevance,
                      expires_at |-> expires_at, created_at |-> now, access_count |-> 0]}

\* set(key, value, domain, ttl, cross_domain_relevance): the state it leaves
\* and the flag it returns.
SetOf(cs, key, value, domain, ttl, cross_domain_relevance, faults) ==
  LET cache_key == GenerateCacheKey(domain, key)
      expires_at == cs.now + TtlOr(ttl)
      written ==
        IF cs.redis_client
        THEN [cs EXCEPT !.redis = {e \in @ : e.key # cache_key}
                          \cup {[key |-> cache_key, value |-> value, expires_at |-> expires_at]}]
        ELSE [cs EXCEPT !.local = {e \in @ : e.key # cache_key}
                          \cup {[key |-> cache_key, value |-> value, expires_at |-> expires_at,
                                  domain |-> domain]}]
  IN IF cs.redis_client /\ faults \cap {"redis", "pickle"} # {}
     THEN [cs |-> Bump(cs, "errors"), ok |-> FALSE]
     ELSE [cs |-> [Bump(written, "sets") EXCEPT
                     !.meta = StoreCacheMetadata(cs.meta, cache_key, domain, expires_at,
                                                 cross_domain_relevance, cs.now, faults)],
           ok |-> TRUE]

\* delete(key, domain)
DeleteOf(cs, key, domain, faults) ==
  LET cache_key == GenerateCacheKey(domain, key)
  IN IF cs.redis_client /\ "redis" \in faults
     THEN [cs |-> Bump(cs, "errors"), ok |-> FALSE]
     ELSE [cs |-> [Bump(cs, "deletes") EXCEPT
                     !.redis = IF cs.redis_client THEN {e \in @ : e.key # cache_key} ELSE @,
                     !.local = IF cs.redis_client THEN @ ELSE {e \in @ : e.key # cache_key}],
           ok |-> TRUE]

\* cache_key.startswith(f"gergy:{domain}:"), and the same for the glob
\* f"gergy:{domain}:*" that Redis matches.
StartsWith(cache_key, domain) ==
  LET prefix == <<"gergy">> \o domain
  IN Len(cache_key) > Len(prefix) /\ SubSeq(cache_key, 1, Len(prefix)) = prefix

\* invalidate_domain(domain): Redis deletes and counts the keys it still
\* holds, the local map every entry of the prefix; an exception gives 0 and
\* is not counted in cache_stats (lines 200-202).
InvalidateDomainOf(cs, domain, faults) ==
  LET keys == {e \in cs.redis : StartsWith(e.key, domain) /\ e.expires_at > cs.now}
      keys_to_delete == {e \in cs.local : StartsWith(e.key, domain)}
  IN IF cs.redis_client
     THEN IF "redis" \in faults THEN [cs |-> cs, count |-> 0]
          ELSE [cs |-> [cs EXCEPT !.redis = @ \ keys], count |-> Cardinality(keys)]
     ELSE [cs |-> [cs EXCEPT !.local = @ \ keys_to_delete],
           count |-> Cardinality(keys_to_delete)]

\* GetOrSetOf calling value_func although get returned a value.
GetOrSetOf_AlwaysProduces(cs, key, producer, domain, faults) ==
  LET got == GetOf(cs, key, domain, faults)
      stored == SetOf(got.cs, key, producer.value, domain, <<>>, {}, faults)
  IN IF producer.raises
     THEN [cs |-> got.cs, value |-> "None", raised |-> TRUE, produced |-> 1]
     ELSE [cs |-> stored.cs, value |-> producer.value, raised |-> FALSE, produced |-> 1]

\* get_or_set(key, value_func, domain): the cached value when get returns
\* one; else value_func is called, its result handed to set and returned
\* whatever set answers; an exception of value_func is re-raised.
GetOrSetOf(cs, key, producer, domain, faults) ==
  LET got == GetOf(cs, key, domain, faults)
      stored == SetOf(got.cs, key, producer.value, domain, <<>>, {}, faults)
  IN IF got.value # "None"
     THEN [cs |-> got.cs, value |-> got.value, raised |-> FALSE, produced |-> 0]
     ELSE IF producer.raises
     THEN [cs |-> got.cs, value |-> "None", raised |-> TRUE, produced |-> 1]
     ELSE [cs |-> stored.cs, value |-> producer.value, raised |-> FALSE, produced |-> 1]

\* Lines 245 and 267: .limit(10) and suggestions[:5].
QueryLimit == 10
SuggestionLimit == 5

\* _calculate_relevance_score in 1/240: 0.5, plus min(access_count / 10, 0.3),
\* plus max(0, 0.2 - age_hours / 24 * 0.2).
CalculateRelevanceScore(cache_entry, now) ==
  LET access_score == Min(24 * cache_entry.access_count, 72)
      age == (48 * (now - cache_entry.created_at)) \div 86400
      recency_score == IF age < 48 THEN 48 - age ELSE 0
  IN 120 + access_score + recency_score

\* The rows the query of lines 241-245 gives: relevant to current_domain, not
\* expired, the QueryLimit most accessed of them.
RelevantCache(meta, current_domain, now) ==
  LET rows == {m \in meta : current_domain \in m.cross_domain_relevance /\ m.expires_at > now}
  IN IF Cardinality(rows) <= QueryLimit THEN rows
     ELSE CHOOSE top \in SUBSET rows :
            /\ Cardinality(top) = QueryLimit
            /\ \A a \in top, b \in rows \ top : a.access_count >= b.access_count

RECURSIVE FetchAll(_, _, _)
\* The loop of lines 247-263: for every row, get(cache_key.split(':')[-1],
\* row.domain); the rows whose get returned a value become suggestions.
FetchAll(cs, rows, faults) ==
  IF rows = {} THEN [cs |-> cs, suggestions |-> {}]
  ELSE LET cache_entry == CHOOSE m \in rows : TRUE
           got == GetOf(cs, <<cache_entry.cache_key[Len(cache_entry.cache_key)]>>,
                        cache_entry.domain, faults)
           rest == FetchAll(got.cs, rows \ {cache_entry}, faults)
       IN [cs |-> rest.cs,
           suggestions |->
             rest.suggestions \cup
               (IF got.value = "None" THEN {}
                ELSE {[domain |-> cache_entry.domain, key |-> cache_entry.cache_key,
                       value |-> got.value, access_count |-> cache_entry.access_count,
                       relevance_score |-> CalculateRelevanceScore(cache_entry, cs.now)]})]

\* suggestions.sort(key=relevance_score, reverse=True): the orders the list
\* can come out in; rows of equal score stand as the query gave them.
SortedByScore(suggestions) ==
  LET n == Cardinality(suggestions)
  IN {q \in [1..n -> suggestions] :
        /\ \A i, j \in 1..n : i # j => q[i] # q[j]
        /\ \A i, j \in 1..n : i < j => q[i].relevance_score >= q[j].relevance_score}

\* get_cross_domain_suggestions(current_domain): the state it leaves and the
\* lists it can return; a failing query returns [] (lines 269-271).
GetCrossDomainSuggestionsOf(cs, current_domain, faults) ==
  LET fetched == FetchAll(cs, RelevantCache(cs.meta, current_domain, cs.now), faults)
  IN IF "db" \in faults THEN [cs |-> cs, lists |-> {<<>>}]
     ELSE [cs |-> fetched.cs,
           lists |-> {SubSeq(q, 1, Min(SuggestionLimit, Len(q))) :
                        q \in SortedByScore(fetched.suggestions)}]

\* An operation leaves the service and its stores as cs.
CacheBecomes(cs) ==
  /\ cache_ops < MaxCacheOps
  /\ cache_ops' = cache_ops + 1
  /\ redis_data' = cs.redis
  /\ local_cache' = cs.local
  /\ temporal_cache' = cs.meta
  /\ cache_stats' = cs.stats
  /\ UNCHANGED <<trackerVars, registryVars, patternVars, request_count, error_count, inv,
                 transport, redis_client, cache_store, cache_metadata, cache_now>>

Get(key, domain, faults) ==
  LET r == GetOf(CacheState, key, domain, faults)
  IN /\ CacheBecomes(r.cs)
     /\ cache_reply' = [NoReply EXCEPT !.op = "get", !.value = r.value]

Set(call, faults) ==
  LET r == SetOf(CacheState, call.key, call.value, call.domain, call.ttl,
                 call.cross_domain_relevance, faults)
  IN /\ CacheBecomes(r.cs)
     /\ cache_reply' = [NoReply EXCEPT !.op = "set", !.ok = r.ok]

Delete(key, domain, faults) ==
  LET r == DeleteOf(CacheState, key, domain, faults)
  IN /\ CacheBecomes(r.cs)
     /\ cache_reply' = [NoReply EXCEPT !.op = "delete", !.ok = r.ok]

InvalidateDomain(domain, faults) ==
  LET r == InvalidateDomainOf(CacheState, domain, faults)
  IN /\ CacheBecomes(r.cs)
     /\ cache_reply' = [NoReply EXCEPT !.op = "invalidate_domain", !.count = r.count]

GetOrSet(key, producer, domain, faults) ==
  LET r == GetOrSetOf(CacheState, key, producer, domain, faults)
  IN /\ CacheBecomes(r.cs)
     /\ cache_reply' = [NoReply EXCEPT !.op = "get_or_set", !.value = r.value,
                                       !.raised = r.raised, !.produced = r.produced]

GetCrossDomainSuggestions(current_domain, faults) ==
  LET r == GetCrossDomainSuggestionsOf(CacheState, current_domain, faults)
  IN /\ CacheBecomes(r.cs)
     /\ \E list \in r.lists :
          cache_reply' = [NoReply EXCEPT !.op = "get_cross_domain_suggestions",
                                         !.suggestions = list]

\* Time passes; the Redis server drops the keys whose time to live is over.
CacheClockAdvance ==
  /\ cache_now < MaxCacheClock
  /\ cache_now' = cache_now + CacheClockStep
  /\ redis_data' = {e \in redis_data : e.expires_at > cache_now'}
  /\ UNCHANGED <<trackerVars, registryVars, patternVars, request_count, error_count, inv,
                 transport, redis_client, cache_store, cache_metadata, cache_stats,
                 local_cache, temporal_cache, cache_ops, cache_reply>>

NextCache ==
  \/ CacheInitialize
  \/ \E call \in SetCalls, faults \in CacheFaultSets : Set(call, faults)
  \/ \E kd \in KeyCalls, faults \in CacheFaultSets : Get(kd[1], kd[2], faults)
  \/ \E kd \in KeyCalls, faults \in CacheFaultSets : Delete(kd[1], kd[2], faults)
  \/ \E domain \in CacheDomains, faults \in CacheFaultSets : InvalidateDomain(domain, faults)
  \/ \E kd \in KeyCalls, producer \in Producers, faults \in CacheFaultSets :
       GetOrSet(kd[1], producer, kd[2], faults)
  \/ \E domain \in CacheDomains, faults \in CacheFaultSets :
       GetCrossDomainSuggestions(domain, faults)
  \/ CacheClockAdvance

SpecCache == Init /\ [][NextCache]_vars

\* The operations that move cache_stats, with values that do not pickle among
\* the failures.
NextCacheStats ==
  \/ CacheInitialize
  \/ \E call \in SetCalls, faults \in StatsFaultSets : Set(call, faults)
  \/ \E kd \in KeyCalls, faults \in StatsFaultSets : Get(kd[1], kd[2], faults)
  \/ \E kd \in KeyCalls, faults \in StatsFaultSets : Delete(kd[1], kd[2], faults)
  \/ \E kd \in KeyCalls, producer \in Producers, faults \in StatsFaultSets :
       GetOrSet(kd[1], producer, kd[2], faults)
  \/ \E domain \in CacheDomains, faults \in StatsFaultSets :
       GetCrossDomainSuggestions(domain, faults)

SpecCacheStats == Init /\ [][NextCacheStats]_vars

\* ------------------------------------------------------------------ claims

AlertKeys == Servers \X ThresholdSet

\* The cumulative cost of today meets or exceeds limit * threshold.
Reached(rows, server, t) == DailyTotalCost(rows, server) * 10 >= DailyBudgetLimit * t

\* A track_api_usage call returns to its caller in this step.
ReturnsNow(c) == ~Finished(c) /\ tc'[c].pc = "returned"

C1_ReturnedCallHasFiredOnce ==
  \A c \in Calls : ReturnsNow(c) =>
    \A t \in ThresholdSet :
      Reached(usage_rows', tc'[c].server, t) => emitted'[<<tc'[c].server, t>>] = 1

\* C1: with the calls made one after the other, no alert row is written twice
\* for a (server, threshold) between two resets, and when a call returns with
\* the server's cumulative cost at or above limit * t, exactly one alert row
\* for (server, t) has been written since the last reset.
C1_AlertAtMostOnce ==
  /\ [](\A k \in AlertKeys : emitted[k] <= 1)
  /\ [][C1_ReturnedCallHasFiredOnce]_vars

\* MaxEvents usage events of 300000 units each, every one of which leaves the
\* cumulative cost above 0.5 * limit, and one alert row for threshold 0.5.
C1_Witness ==
  /\ tc[1].pc = "returned"
  /\ usage_rows = [r \in {[server |-> "gergy-financial", cost |-> 300000, recent |-> TRUE]}
                     |-> MaxEvents]
  /\ emitted[<<"gergy-financial", 5>>] = 1
  /\ resets = 0

\* C2: with the calls interleaved at their awaits, no (server, threshold)
\* alert is written twice between two resets, and once every call has returned
\* no threshold that the cumulative cost has reached is left without its alert.
C2_NoDuplicateNoMissedAlert ==
  /\ \A k \in AlertKeys : emitted[k] <= 1
  /\ (resets = 0 /\ \A c \in Calls : tc[c].pc \in {"idle", "returned"}) =>
       \A k \in AlertKeys : Reached(usage_rows, k[1], k[2]) => emitted[k] >= 1

\* The second half of C2 alone.
C2_NoMissedAlert ==
  (resets = 0 /\ \A c \in Calls : tc[c].pc \in {"idle", "returned"}) =>
    \A k \in AlertKeys : Reached(usage_rows, k[1], k[2]) => emitted[k] >= 1

\* The rate table has no entry for the call's provider and model.
RateTableMiss(inp) == <<Lower(inp.provider), inp.model>> \notin DOMAIN CostRateTable

\* C9: a track_api_usage call whose provider and model have no entry in the
\* rate table never fails because of them: if it raises, a persistence
\* failure is what it raises.
C9_UnknownModelNeverFails ==
  \A c \in Calls :
    (tc[c].pc = "raised" /\ RateTableMiss(tc[c].inp)) => tc[c].exc = "DatabaseError"

\* A call with no rate table entry that did go through, at the default rates.
C9_DefaultRatesUsed ==
  \E c \in Calls :
    /\ tc[c].pc = "returned" /\ RateTableMiss(tc[c].inp)
    /\ \E r \in BagToSet(usage_rows) :
         r.cost = tc[c].inp.input_tokens * DefaultRates[1]
                    + tc[c].inp.output_tokens * DefaultRates[2]

\* ------------------------------------------------- claims on the pipeline

\* An invocation has come back to its caller.
InvocationDone == inv.pc \in {"returned", "raised"}

\* The steps of one invocation whose handler returns, in the order of 4.1.
ExpectedSteps(kw) ==
  <<"count", "track">> \o (IF HasText(kw) THEN <<"pattern">> ELSE <<>>)
    \o <<"handler", "cache", "knowledge", "return">>

IsPrefix(s, t) == Len(s) <= Len(t) /\ \A i \in 1..Len(s) : s[i] = t[i]

\* C3: an invocation starts its steps in the order counter, usage tracking,
\* pattern analysis (when the arguments carry text), handler, cache write,
\* knowledge write-back, return, and an invocation whose handler does not raise
\* has run all of them, in that order, when it is over.
C3_StepsRunInOrder ==
  /\ inv.pc # "idle" => IsPrefix(inv.steps, ExpectedSteps(inv.kw))
  /\ (InvocationDone /\ ~inv.hb.raises) => inv.steps = ExpectedSteps(inv.kw)

\* The first half of C3 alone: the steps that are started, are started in order.
C3_StartedStepsInOrder ==
  inv.pc # "idle" => IsPrefix(inv.steps, ExpectedSteps(inv.kw))

\* C4: an invocation in which usage tracking or pattern analysis failed has
\* still executed the handler, and has returned if the handler does not raise.
C4_TrackingFailureInvisible ==
  (InvocationDone /\ inv.failed \in {"track", "pattern"}) =>
    /\ "handler" \in {inv.steps[i] : i \in 1..Len(inv.steps)}
    /\ ~inv.hb.raises => inv.pc = "returned"

\* C5: an invocation whose handler does not raise and whose knowledge-store
\* write-back fails returns the handler's result and counts no error.
C5_WriteBackFailureInvisible ==
  (InvocationDone /\ ~inv.hb.raises /\ inv.hb.substantial /\ "knowledge" \in inv.faults) =>
    inv.pc = "returned" /\ inv.errs = 0

\* C6: an invocation whose handler does not raise, run while the cache's fast
\* store or metadata store is failing, returns the handler's result and has
\* run the knowledge write-back.
C6_CacheOutageInvisible ==
  (InvocationDone /\ ~inv.hb.raises /\ inv.faults \cap {"redis", "cache_meta"} # {}) =>
    /\ inv.pc = "returned"
    /\ "knowledge" \in {inv.steps[i] : i \in 1..Len(inv.steps)}

\* C7: an invocation whose handler raises counts exactly one error and raises
\* ToolExecutionError to its caller.
C7_HandlerErrorWrapped ==
  (InvocationDone /\ inv.hb.raises) =>
    inv.pc = "raised" /\ inv.errs = 1 /\ inv.exc = "ToolExecutionError"

\* The tools/call endpoint has just served a call of a registered tool.
ServesRegisteredTool ==
  transport'.tick # transport.tick /\ transport'.status \in {200, 500}

\* C8: every call of a registered tool through the tools/call boundary adds one
\* to the request counter and one usage event to the log.
C8_TransportCallsArePipelined ==
  [][ServesRegisteredTool =>
       /\ request_count' = request_count + 1
       /\ BagCardinality(usage_rows') = BagCardinality(usage_rows) + 1]_vars

\* The usage event of the invocation brings the server's cumulative cost to or
\* past limit * t for some threshold t.
InvocationReachesThreshold ==
  \E t \in ThresholdSet :
    (DailyTotalCost(usage_rows, ServerName)
       + TotalCostOf(TrackToolUsageArgs(inv.tool, inv.kw))) * 10 >= DailyBudgetLimit * t

\* C10: an invocation whose usage event reaches a budget threshold is not
\* blocked: with no collaborator failing and a handler that does not raise,
\* the handler has run and its result is returned.
C10_BudgetIsSoft ==
  (InvocationDone /\ ~inv.hb.raises /\ inv.faults = {} /\ InvocationReachesThreshold) =>
    /\ inv.pc = "returned"
    /\ "handler" \in {inv.steps[i] : i \in 1..Len(inv.steps)}

\* ------------------------------------------- claims on reset and ordering

\* Alert rows the knowledge store holds for (server, t), resets or not.
AlertRowsFor(server, t) == CopiesIn(AlertRecord(server, t), knowledge)

\* A reset step leaves no key fired; a call that returns after a reset has
\* emitted, since that reset, one alert for every threshold the server's cost
\* has reached, and holds its key as fired.
C11_ResetStep ==
  /\ resets' = resets + 1 => alerts_sent' = {}
  /\ \A c \in Calls :
       (ReturnsNow(c) /\ resets' >= 1) =>
         \A t \in ThresholdSet :
           Reached(usage_rows', tc'[c].server, t) =>
             /\ emitted'[<<tc'[c].server, t>>] = 1
             /\ AlertKey(tc'[c].server, t) \in alerts_sent'

\* C11: reset_daily_alerts clears the fired state of every server and
\* threshold, and after it a usage event that leaves the cost at or above
\* limit * t emits the alert for t again, also when t had fired before.
C11_ResetRearmsAlerts == [][C11_ResetStep]_vars

\* The 0.8 alert of gergy-financial fired before the reset and again after it.
C11_Witness ==
  /\ resets = 1
  /\ tc[1].pc = "returned"
  /\ emitted[<<"gergy-financial", 8>>] = 1
  /\ AlertRowsFor("gergy-financial", 8) = 2

\* The call's own row is in the usage table.
OwnRowStored(c) ==
  \E r \in BagToSet(usage_rows) : r.server = tc[c].server /\ r.cost = tc[c].cost

\* C12 as a state property: a call that checks the budget has stored its event
\* first, and its daily cost counts that event while the event is in the
\* window; a call that alerts for the threshold at list position idx has met
\* limit * threshold, and has alerted already for every earlier threshold it
\* has met.
C12_StoredThenAscending ==
  \A c \in Calls :
    /\ tc[c].pc \in {"read", "check", "send", "mark"} => OwnRowStored(c)
    /\ (tc[c].pc = "check" /\ \A r \in BagToSet(usage_rows) : r.recent) =>
         tc[c].daily = DailyTotalCost(usage_rows, tc[c].server) /\ tc[c].daily >= tc[c].cost
    /\ tc[c].pc \in {"send", "mark"} =>
         /\ tc[c].daily * 10 >= DailyBudgetLimit * Thresholds[tc[c].idx]
         /\ tc[c].pc = "send" => AlertKey(tc[c].server, Thresholds[tc[c].idx]) \notin alerts_sent
         /\ \A j \in 1..(tc[c].idx - 1) :
              tc[c].daily * 10 >= DailyBudgetLimit * Thresholds[j] =>
                AlertKey(tc[c].server, Thresholds[j]) \in alerts_sent

\* C12 as a step property: an alert row is written by a call that stands at
\* that threshold, one row at a time, and the step after it marks the key fired.
C12_AlertStep ==
  /\ \A k \in AlertKeys :
       emitted'[k] > emitted[k] =>
         /\ emitted'[k] = emitted[k] + 1
         /\ \E c \in Calls : /\ tc[c].pc = "send" /\ tc'[c].pc = "mark"
                             /\ k = <<tc[c].server, Thresholds[tc[c].idx]>>
                             /\ tc[c].daily * 10 >= DailyBudgetLimit * k[2]
  /\ \A c \in Calls :
       (tc[c].pc = "mark" /\ tc'[c].pc # "mark") =>
         AlertKey(tc[c].server, Thresholds[tc[c].idx]) \in alerts_sent'

\* C12: track_api_usage stores its event before it checks the budget, visits
\* the thresholds in ascending order, emits one alert for each threshold the
\* cumulative cost has met that has not fired, marks it fired, and emits none
\* for a threshold the cost has not met.
C12_StoreCheckAscending == []C12_StoredThenAscending /\ [][C12_AlertStep]_vars

\* One event of cost 300000 on top of 100000 crosses 0.5 and 0.8 at once: both
\* alerts are out, 0.5 first, and 0.9 is not met.
C12_Witness ==
  /\ tc[1].pc = "mark" /\ tc[1].idx = 2 /\ tc[1].cost = 300000 /\ tc[1].daily = 400000
  /\ resets = 0
  /\ alerts_sent = {<<"gergy-financial", 5>>}
  /\ emitted[<<"gergy-financial", 5>>] = 1 /\ emitted[<<"gergy-financial", 8>>] = 1
  /\ emitted[<<"gergy-financial", 9>>] = 0

\* ------------------------------------------------- claims on the registry

\* The tools/call endpoint has answered a request for a name that is not
\* registered.
AnswersUnknownName ==
  transport'.tick # transport.tick /\ transport'.req = "unknown"

\* C13: a call of a name that is not registered is answered with not-found at
\* once; no handler runs and no usage event, history entry, cache entry or
\* knowledge record is made.
C13_UnknownToolNotFound ==
  [][AnswersUnknownName =>
       /\ transport'.status = 404
       /\ ~transport'.ran
       /\ UNCHANGED <<usage_rows, knowledge, trigger_history, pattern_rows, cache_store,
                      cache_metadata, request_count, error_count, inv, tc>>]_vars

\* An unknown name was answered 404 while tools were registered.
C13_Witness ==
  /\ transport.req = "unknown" /\ transport.status = 404
  /\ \E n \in ToolNames : tools[n] # "none"

\* C15: whatever register_tool calls were made, there is one definition per
\* name and FastMCP dispatches each name to the handler that self.tools, the
\* listing and the tools/call endpoint hold for it.
C15_OneDefinitionPerName ==
  /\ \A n \in ToolNames : Cardinality({w \in wrapped : w[1] = n}) <= 1
  /\ \A w \in wrapped : tools[w[1]] = w[2]

\* The half of C15 that self.tools decides alone: a name FastMCP holds is a
\* key of self.tools, and FastMCP holds one closure per name.
C15_RegistryHoldsEveryName ==
  /\ \A n \in ToolNames : Cardinality({w \in wrapped : w[1] = n}) <= 1
  /\ \A w \in wrapped : tools[w[1]] # "none"

\* C14: an invocation of a tool that returns its arguments, called with
\* {query: 'budget $500 for vacation'} and nothing failing, returns; the
\* session's trigger history holds an entry with financial_amount, budget and
\* vacation; and a knowledge-store write was made for the result.  The result
\* {'query': 'budget $500 for vacation'} has 37 characters as a string.
C14_EchoEndToEnd ==
  (InvocationDone /\ HasText(inv.kw) /\ ~inv.hb.raises /\ ~inv.hb.substantial
     /\ inv.faults = {}) =>
    /\ inv.pc = "returned"
    /\ \E i \in 1..Len(trigger_history[SessionId]) :
         {"financial_amount", "budget", "vacation"} \subseteq trigger_history[SessionId][i].triggers
    /\ CopiesIn(ToolResultRecord(inv.tool), knowledge) >= 1

\* ------------------------------------------------------- claims on cost

\* inputTokens/1000*inRate + outputTokens/1000*outRate for the table's rates of
\* the key, in units of 1e-8 dollar.
TableCost(provider, model, input_tokens, output_tokens) ==
  input_tokens * CostRateTable[<<provider, model>>][1]
    + output_tokens * CostRateTable[<<provider, model>>][2]

InRateTable(inp) == <<Lower(inp.provider), inp.model>> \in DOMAIN CostRateTable

\* C16: for a (provider, model) of the rate table the cost of the event, in
\* the call and in the stored row, is inputTokens/1000*inRate +
\* outputTokens/1000*outRate, and no call with at least as many tokens of
\* either kind costs less.
C16_CostFormulaMonotone ==
  \A c \in Calls :
    (tc[c].pc \notin {"idle", "raised"} /\ InRateTable(tc[c].inp)) =>
      LET inp == tc[c].inp
          cost == IF tc[c].pc = "returned" THEN TotalCostOf(inp) ELSE tc[c].cost
      IN /\ cost = TableCost(Lower(inp.provider), inp.model, inp.input_tokens, inp.output_tokens)
         /\ tc[c].pc \in {"read", "check", "send", "mark"} =>
              \E r \in BagToSet(usage_rows) : r.cost = cost /\ r.server = tc[c].server
         /\ \A more \in RateInputs :
              (/\ Lower(more.provider) = Lower(inp.provider) /\ more.model = inp.model
               /\ more.input_tokens >= inp.input_tokens
               /\ more.output_tokens >= inp.output_tokens) =>
                TotalCostOf(more) >= cost

\* claude-3-haiku with 2000 input and 1000 output tokens: 0.0005 + 0.00125
\* dollar is stored.
C16_Witness ==
  /\ tc[1].pc = "read"
  /\ tc[1].inp = [provider |-> "anthropic", model |-> "claude-3-haiku",
                  input_tokens |-> 2000, output_tokens |-> 1000]
  /\ usage_rows = SetToBag({[server |-> ServerName, cost |-> 175000, recent |-> TRUE]})

\* ---------------------------------------- claims on the pattern detector

\* analyze_conversation has just run: a history has one entry more.
AnalysisStep == TotalEntries(trigger_history') = TotalEntries(trigger_history) + 1

ReturnedNames(a) == {a.returned[i].name : i \in 1..Len(a.returned)}

OneDomainOnly(history) ==
  \A i, j \in 1..Len(history) : history[i].domain = history[j].domain

\* C17: a call of analyze_conversation on a session whose entries all carry the
\* same domain returns no pattern of a template with min_domains = 2, however
\* many entries and matching triggers the history holds.
C17_OneDomainNoPattern ==
  [][(AnalysisStep /\ OneDomainOnly(trigger_history'[analysis'.session])) =>
       \A n \in ReturnedNames(analysis') : PatternTemplates[n].min_domains < 2]_vars

\* Three entries of the home domain with six matches of home_improvement_project
\* (confidence 0.2 + 0.4 = 0.6, that template's threshold) and nothing returned.
C17_Witness ==
  /\ analysis.outcome = "returned" /\ analysis.session = "default"
  /\ analysis.returned = <<>>
  /\ Len(trigger_history["default"]) = 3
  /\ \A i \in 1..3 : /\ trigger_history["default"][i].domain = "home"
                     /\ trigger_history["default"][i].triggers = {"renovation", "repair"}
                     /\ trigger_history["default"][i].age = 0

\* The entries of history inside the template's window that hold one of its
\* triggers, and the (entry, trigger) matches among them: a trigger counts once
\* for each entry that holds it.
MatchingEntries(name, history) ==
  {i \in 1..Len(history) :
     /\ history[i].age <= PatternTemplates[name].time_window
     /\ history[i].triggers \cap PatternTemplates[name].triggers # {}}
Occurrences(name, history) ==
  {<<i, t>> \in (1..Len(history)) \X PatternTemplates[name].triggers :
     i \in MatchingEntries(name, history) /\ t \in history[i].triggers}
TriggeredDomains(name, history) ==
  {history[i].domain : i \in MatchingEntries(name, history)}

\* confidence = 0.6 * min(d / D, 1) + 0.4 * min(o / K, 1), multiplied through
\* by D * K, in units of 1/900.
ConfidenceIs(conf, d, bigD, o, bigK) ==
  conf * bigD * bigK = 540 * Min(d, bigD) * bigK + 360 * Min(o, bigK) * bigD

\* C18: for every template with at least min_domains triggered domains the
\* confidence is 0.6*min(|triggeredDomains|/|eligibleDomains|, 1) +
\* 0.4*min(occurrences/|triggerKeywords|, 1) with occurrences counted per
\* entry, it lies in [0, 1], and a returned pattern carries that value.
C18_ConfidenceFormula ==
  \A s \in Sessions : \A n \in TemplateNames :
    LET history == trigger_history[s]
        e == Evaluate(n, history)
        d == Cardinality(TriggeredDomains(n, history))
    IN d >= PatternTemplates[n].min_domains =>
         /\ ConfidenceIs(e.confidence, d, Cardinality(PatternTemplates[n].domains),
                         Cardinality(Occurrences(n, history)),
                         Cardinality(PatternTemplates[n].triggers))
         /\ e.confidence >= 0 /\ e.confidence <= ConfidenceUnit
         /\ e.frequency = Cardinality(Occurrences(n, history))
         /\ CheckPatternTemplate(n, history).name = n =>
              CheckPatternTemplate(n, history).confidence = e.confidence

\* financial_planning_event (5 triggers, 3 domains) with 2 triggered domains and
\* 3 occurrences, budget among them twice: 0.64, which is 576/900.
C18_Witness ==
  LET e == Evaluate("financial_planning_event", trigger_history["default"])
  IN /\ Len(trigger_history["default"]) = 2
     /\ Cardinality(e.domains) = 2 /\ e.frequency = 3 /\ e.triggers = {"budget", "savings"}
     /\ e.confidence * 100 = 64 * ConfidenceUnit

\* C19: a call that returns has stored every template evaluation with at least
\* min_domains domains and confidence >= 0.6, and has not returned those whose
\* confidence is below the template's own threshold.
C19_StoresBelowOwnThreshold ==
  [][(AnalysisStep /\ analysis'.outcome = "returned") =>
       \A n \in TemplateNames :
         LET e == Evaluate(n, trigger_history'[analysis'.session])
         IN (/\ Cardinality(e.domains) >= PatternTemplates[n].min_domains
             /\ e.confidence >= StoreConfidence) =>
              /\ <<n, e.confidence>> \in pattern_rows'
              /\ e.confidence < PatternTemplates[n].confidence_threshold =>
                   n \notin ReturnedNames(analysis')]_vars

\* What the code does store: the patterns it returns with confidence >= 0.6.
C19_StoresWhatItReturns ==
  [][(AnalysisStep /\ analysis'.outcome = "returned") =>
       /\ analysis'.stored =
            {analysis'.returned[i].name :
               i \in {j \in 1..Len(analysis'.returned) :
                        analysis'.returned[j].confidence >= StoreConfidence}}
       /\ \A i \in 1..Len(analysis'.returned) :
            analysis'.returned[i].confidence >= StoreConfidence =>
              <<analysis'.returned[i].name, analysis'.returned[i].confidence>> \in pattern_rows']_vars

\* C20: every pattern a call returns has confidence >= its template's
\* threshold and at least min_domains domains, and a call returns at most one
\* pattern per template, five at most.
C20_ReturnedPatternsQualify ==
  /\ \A i \in 1..Len(analysis.returned) :
       LET p == analysis.returned[i]
       IN /\ p.name \in TemplateNames
          /\ p.confidence >= PatternTemplates[p.name].confidence_threshold
          /\ Cardinality(p.domains) >= PatternTemplates[p.name].min_domains
  /\ \A i, j \in 1..Len(analysis.returned) :
       analysis.returned[i].name = analysis.returned[j].name => i = j
  /\ Len(analysis.returned) <= 5

\* family_activity_planning returned with three domains and three occurrences:
\* 0.6 + 0.24 = 0.84, its threshold being 0.8.
C20_Witness ==
  /\ analysis.outcome = "returned"
  /\ \E i \in 1..Len(analysis.returned) :
       /\ analysis.returned[i].name = "family_activity_planning"
       /\ analysis.returned[i].confidence * 100 = 84 * ConfidenceUnit
       /\ Cardinality(analysis.returned[i].domains) = 3

\* ------------------------------------------------------------ C21 .. C23

\* What one analyze_conversation(content, domain, session_id) call must leave:
\* the session's history longer by the one entry of this call, with the
\* entries it had untouched, and every other session's history as it was.
AppendsOneEntry(content, domain, session_id) ==
  LET before == trigger_history[session_id]
      after == trigger_history'[session_id]
  IN /\ Len(after) = Len(before) + 1
     /\ SubSeq(after, 1, Len(before)) = before
     /\ after[Len(after)] =
          [domain |-> domain, triggers |-> ExtractTriggers(content), age |-> 0]
     /\ \A s \in Sessions \ {session_id} : trigger_history'[s] = trigger_history[s]
     /\ trigger_sessions' = trigger_sessions \cup {session_id}
     /\ analysis'.outcome = "returned" => analysis'.returned = DetectPatterns(after)

\* C21: every analyze_conversation call appends exactly one entry to the
\* history of its session, also when it extracted no trigger and when the
\* pattern store fails; it changes no entry that was there and no other
\* session's history, and what it returns is detected from its own session's
\* history alone.
C21_AppendOnlyPerSession ==
  [][\A call \in PatternCalls, db_ok \in BOOLEAN :
       AnalyzeConversation(call[1], call[2], call[3], db_ok)
         => AppendsOneEntry(call[1], call[2], call[3])]_vars

\* A call that extracted no trigger has returned; its entry stands behind the
\* one the session had, and the other session holds an entry too.
C21_Witness ==
  /\ analysis.outcome = "returned"
  /\ analysis.session = "default"
  /\ Len(trigger_history["default"]) = 2
  /\ trigger_history["default"][1].triggers # {}
  /\ trigger_history["default"][2] = [domain |-> "financial", triggers |-> {}, age |-> 0]
  /\ trigger_history["session-1"] # <<>>

\* The positions of the entries whose timestamp is at or after the cutoff of
\* cleanup_old_patterns(days_old).
AtOrAfterCutoff(history, days_old) == {i \in 1..Len(history) : history[i].age <= days_old}

\* `after` holds exactly the entries of `before` at the positions `kept`, in
\* the order they had.
HoldsExactly(after, before, kept) ==
  /\ Len(after) = Cardinality(kept)
  /\ \A k \in 1..Len(after) :
       \E i \in kept : /\ Cardinality({j \in kept : j <= i}) = k
                        /\ after[k] = before[i]

\* The longest time_window of the templates, in days.
LongestWindow ==
  CHOOSE w \in {PatternTemplates[n].time_window : n \in TemplateNames} :
    \A n \in TemplateNames : PatternTemplates[n].time_window <= w

\* What analyze_conversation would detect for `call` on `history`.
DetectionAfter(history, call) ==
  DetectPatterns(Append(history, [domain |-> call[2], triggers |-> ExtractTriggers(call[1]),
                                  age |-> 0]))

CleansUp(days_old) ==
  /\ \A s \in Sessions :
       HoldsExactly(trigger_history'[s], trigger_history[s],
                    AtOrAfterCutoff(trigger_history[s], days_old))
  /\ trigger_sessions' =
       {s \in trigger_sessions : AtOrAfterCutoff(trigger_history[s], days_old) # {}}
  /\ \A call \in CleanupCalls :
       /\ DetectionAfter(trigger_history'[call[3]], call)
            = DetectionAfter(Retained(trigger_history[call[3]], days_old), call)
       /\ days_old >= LongestWindow
            => DetectionAfter(trigger_history'[call[3]], call)
                 = DetectionAfter(trigger_history[call[3]], call)

\* C22: cleanup_old_patterns(days_old), called in any state, removes exactly
\* the entries older than the cutoff, keeps the others in their order, deletes
\* every session left without an entry, and the next analysis detects what the
\* retained entries give (with days_old no shorter than the longest time
\* window: what it would have detected without the cleanup).
C22_CleanupRemovesExactlyOld ==
  [][\A days_old \in DaysOldInputs :
       CleanupOldPatterns(days_old) => CleansUp(days_old)]_vars

\* A session whose two entries gave a stored pattern is gone, and the session
\* analysed after it still holds its newer entry.
C22_Witness ==
  /\ pattern_rows # {}
  /\ "default" \notin trigger_sessions
  /\ trigger_history["default"] = <<>>
  /\ analysis.session = "session-1"
  /\ trigger_sessions = {"session-1"}
  /\ Len(trigger_history["session-1"]) = 1

\* The appended entries of a session that no cleanup found older than its
\* cutoff, as history entries.
WithinCutoff(log) ==
  LET kept == SelectSeq(log, LAMBDA e : ~e.cut)
  IN [i \in 1..Len(kept) |->
        [domain |-> kept[i].domain, triggers |-> kept[i].triggers, age |-> kept[i].age]]

\* C23: however the steps of analyze_conversation calls for one session
\* interleave with each other, with the passing of time and with
\* cleanup_old_patterns, the session's history holds, in the order of the
\* appends, exactly one entry for each call whose entry no cleanup found older
\* than its cutoff: none is lost, none is there twice.  It holds in every
\* state, so also once all calls have finished.
C23_NoEntryLostOrDuplicated ==
  \A s \in Sessions : trigger_history[s] = WithinCutoff(appended[s])

\* Both coroutines have finished, a pattern was stored, and of the three
\* entries appended a cleanup has removed one and retained two.
C23_Witness ==
  /\ \A c \in PatternSlots : ac[c].pc \in {"returned", "raised"}
  /\ pattern_rows # {}
  /\ Len(appended["default"]) = 3
  /\ \E i \in 1..3 : appended["default"][i].cut
  /\ Len(trigger_history["default"]) = 2

\* ------------------------------------------------------ claims on the cache

\* The service `seconds` later, nothing called in between: the Redis server
\* has dropped the keys whose time to live is over.
Later(cs, seconds) ==
  [cs EXCEPT !.now = @ + seconds,
             !.redis = {e \in @ : e.expires_at > cs.now + seconds}]

\* The ttl a set call asks for: the one supplied, the default when omitted.
AskedTtl(ttl) == IF ttl = <<>> THEN DefaultTtl ELSE ttl[1]

\* The entry the store in use holds for (key, domain).
EntriesOf(cs, key, domain) ==
  {e \in (IF cs.redis_client THEN cs.redis ELSE cs.local) :
     e.key = GenerateCacheKey(domain, key)}

ElapsedTimes == {0, CacheClockStep, DefaultTtl}

\* One step of the cache honours the ttl asked for, a delete, and the removal
\* of an entry read past its expiry.
GetFollowsSet ==
  /\ \A call \in SetCalls, faults \in CacheFaultSets :
       Set(call, faults) /\ cache_reply'.ok
         => \A elapsed \in ElapsedTimes :
              (GetOf(Later(CacheState', elapsed), call.key, call.domain, {}).value
                 = call.value)
                <=> elapsed < AskedTtl(call.ttl)
  /\ \A kd \in KeyCalls, faults \in CacheFaultSets :
       Delete(kd[1], kd[2], faults) /\ cache_reply'.ok
         => GetOf(CacheState', kd[1], kd[2], {}).value = "None"
  /\ \A kd \in KeyCalls :
       Get(kd[1], kd[2], {}) /\ cache_reply'.value = "None"
         => EntriesOf(CacheState', kd[1], kd[2]) = {}

\* C24: after a set that reported success, a get of the same key and domain
\* returns the value set exactly while less than the ttl asked for has
\* elapsed; after a delete it returns None; and a get that finds the entry
\* past its expiry leaves no entry behind.
C24_GetWithinTtl == [][GetFollowsSet]_vars

\* C24 for the calls with a ttl above 0 or none: the entry lives for the ttl
\* asked for.
C24_PositiveTtlHonoured ==
  [][\A call \in SetCalls, faults \in CacheFaultSets :
       Set(call, faults) /\ cache_reply'.ok /\ call.ttl # <<0>>
         => \A elapsed \in ElapsedTimes :
              (GetOf(Later(CacheState', elapsed), call.key, call.domain, {}).value
                 = call.value)
                <=> elapsed < AskedTtl(call.ttl)]_vars

\* The cache keys the store in use holds.
HeldKeys(cs) == {e.key : e \in (IF cs.redis_client THEN cs.redis ELSE cs.local)}

\* The domains a cache key was set with.
SetWithDomain(cache_key) ==
  {c.domain : c \in {x \in SetCalls : GenerateCacheKey(x.domain, x.key) = cache_key}}

\* C25: invalidate_domain(d), with both stores answering, removes every entry
\* that was set with domain d, no entry set with another domain, and returns
\* the number of entries it removed.
C25_InvalidatesAllAndOnlyDomain ==
  [][\A domain \in CacheDomains :
       InvalidateDomain(domain, {})
         => LET removed == HeldKeys(CacheState) \ HeldKeys(CacheState')
            IN /\ removed = {k \in HeldKeys(CacheState) : domain \in SetWithDomain(k)}
               /\ cache_reply'.count = Cardinality(removed)]_vars

\* C25 as far as it holds: every entry set with domain d is removed, and the
\* number returned is the number of entries removed.
C25_RemovesDomainAndCounts ==
  [][\A domain \in CacheDomains :
       InvalidateDomain(domain, {})
         => LET removed == HeldKeys(CacheState) \ HeldKeys(CacheState')
            IN /\ {k \in HeldKeys(CacheState) : domain \in SetWithDomain(k)} \subseteq removed
               /\ cache_reply'.count = Cardinality(removed)]_vars

\* The operation of this step met a failing store: the Redis server with the
\* client in use, or the database where set writes the metadata row and where
\* a Redis hit counts the access.
MetFailure(op, key, domain, faults) ==
  \/ redis_client /\ "redis" \in faults
  \/ op = "set" /\ "db" \in faults
  \/ op = "get" /\ "db" \in faults /\ redis_client /\ "redis" \notin faults
       /\ EntriesOf(CacheState, key, domain) # {}

\* The failure is counted and reported: None, False, or no entry removed.
FailureReported ==
  /\ ~cache_reply'.raised
  /\ cache_stats'.errors = cache_stats.errors + 1
  /\ cache_reply'.value = "None"
  /\ ~cache_reply'.ok
  /\ cache_reply'.count = 0

FailuresAreReported ==
  /\ \A call \in SetCalls, faults \in CacheFaultSets :
       Set(call, faults) /\ MetFailure("set", call.key, call.domain, faults)
         => FailureReported
  /\ \A kd \in KeyCalls, faults \in CacheFaultSets :
       Get(kd[1], kd[2], faults) /\ MetFailure("get", kd[1], kd[2], faults)
         => FailureReported
  /\ \A kd \in KeyCalls, faults \in CacheFaultSets :
       Delete(kd[1], kd[2], faults) /\ MetFailure("delete", kd[1], kd[2], faults)
         => FailureReported
  /\ \A domain \in CacheDomains, faults \in CacheFaultSets :
       InvalidateDomain(domain, faults) /\ MetFailure("invalidate_domain", <<>>, domain, faults)
         => FailureReported

\* C26: a get, set, delete or invalidate_domain during which the Redis server
\* or the database fails raises nothing, adds one to cache_stats['errors'] and
\* answers None, False or 0; set does not answer True when the metadata write
\* failed.
C26_FailureCountedAndReported == [][FailuresAreReported]_vars

RedisFailuresAreReported ==
  /\ cache_reply'.raised => cache_reply'.op = "get_or_set"
  /\ \A kd \in KeyCalls :
       (Get(kd[1], kd[2], {"redis"}) \/ Delete(kd[1], kd[2], {"redis"})) /\ redis_client
         => FailureReported

\* C26 as far as it holds: get, set, delete and invalidate_domain raise
\* nothing, and a failing Redis server is counted and reported by get and
\* delete.
C26_NothingPropagates == [][RedisFailuresAreReported]_vars

\* The service in external-store mode that holds what a service in fallback
\* mode holds: the Redis server has the entries that are not expired.
AsExternal(cs) ==
  [cs EXCEPT !.redis_client = TRUE,
             !.redis = {[key |-> e.key, value |-> e.value, expires_at |-> e.expires_at] :
                          e \in {x \in cs.local : x.expires_at > cs.now}},
             !.local = {}]

\* An operation on the fallback service answers as the same operation on the
\* external-store service, and leaves it holding the same entries.
SameAnswer(fallback, external, field) ==
  /\ fallback[field] = external[field]
  /\ AsExternal(fallback.cs).redis = external.cs.redis

FallbackAnswersAsExternal ==
  /\ ~redis_client => redis_data' = redis_data
  /\ \A call \in SetCalls :
       Set(call, {}) /\ ~redis_client
         => SameAnswer(SetOf(CacheState, call.key, call.value, call.domain, call.ttl,
                             call.cross_domain_relevance, {}),
                       SetOf(AsExternal(CacheState), call.key, call.value, call.domain,
                             call.ttl, call.cross_domain_relevance, {}), "ok")
  /\ \A kd \in KeyCalls :
       Get(kd[1], kd[2], {}) /\ ~redis_client
         => SameAnswer(GetOf(CacheState, kd[1], kd[2], {}),
                       GetOf(AsExternal(CacheState), kd[1], kd[2], {}), "value")
  /\ \A kd \in KeyCalls :
       Delete(kd[1], kd[2], {}) /\ ~redis_client
         => SameAnswer(DeleteOf(CacheState, kd[1], kd[2], {}),
                       DeleteOf(AsExternal(CacheState), kd[1], kd[2], {}), "ok")
  /\ \A domain \in CacheDomains :
       InvalidateDomain(domain, {}) /\ ~redis_client
         => SameAnswer(InvalidateDomainOf(CacheState, domain, {}),
                       InvalidateDomainOf(AsExternal(CacheState), domain, {}), "count")

\* C27: with the client unset after a failed initialize, every operation
\* works on local_cache and leaves the Redis server alone, and get, set,
\* delete and invalidate_domain answer what they would answer in
\* external-store mode on the same entries.
C27_FallbackEquivalent == [][FallbackAnswersAsExternal]_vars

FallbackAnswersButCount ==
  /\ ~redis_client => redis_data' = redis_data
  /\ \A call \in SetCalls :
       Set(call, {}) /\ ~redis_client
         => SameAnswer(SetOf(CacheState, call.key, call.value, call.domain, call.ttl,
                             call.cross_domain_relevance, {}),
                       SetOf(AsExternal(CacheState), call.key, call.value, call.domain,
                             call.ttl, call.cross_domain_relevance, {}), "ok")
  /\ \A kd \in KeyCalls :
       Get(kd[1], kd[2], {}) /\ ~redis_client
         => SameAnswer(GetOf(CacheState, kd[1], kd[2], {}),
                       GetOf(AsExternal(CacheState), kd[1], kd[2], {}), "value")
  /\ \A kd \in KeyCalls :
       Delete(kd[1], kd[2], {}) /\ ~redis_client
         => SameAnswer(DeleteOf(CacheState, kd[1], kd[2], {}),
                       DeleteOf(AsExternal(CacheState), kd[1], kd[2], {}), "ok")
  /\ \A domain \in CacheDomains :
       InvalidateDomain(domain, {}) /\ ~redis_client
         => AsExternal(InvalidateDomainOf(CacheState, domain, {}).cs).redis
              = InvalidateDomainOf(AsExternal(CacheState), domain, {}).cs.redis

\* C27 as far as it holds: the values, absences and flags of get, set and
\* delete are those of external-store mode, and invalidate_domain leaves the
\* same entries.
C27_FallbackEquivalentButCount == [][FallbackAnswersButCount]_vars

\* The entries of (key, domain) in the store in use that are not expired.
LiveEntries(cs, key, domain) == {e \in EntriesOf(cs, key, domain) : e.expires_at > cs.now}

\* get_or_set with a live entry: value_func is not called, the cached value
\* is returned.
ServedFromCache(key, domain) ==
  /\ cache_reply'.produced = 0
  /\ ~cache_reply'.raised
  /\ \E e \in LiveEntries(CacheState, key, domain) : cache_reply'.value = e.value

\* get_or_set on a miss: value_func is called once; its result is stored and
\* returned, or its exception reaches the caller and nothing is stored.
ProducedAndStored(key, producer, domain) ==
  /\ cache_reply'.produced = 1
  /\ IF producer.raises
     THEN cache_reply'.raised /\ EntriesOf(CacheState', key, domain) = {}
     ELSE /\ ~cache_reply'.raised
          /\ cache_reply'.value = producer.value
          /\ \E e \in LiveEntries(CacheState', key, domain) : e.value = producer.value

ProducedUnstored(producer) ==
  /\ cache_reply'.produced = 1
  /\ cache_reply'.raised = producer.raises
  /\ ~producer.raises => cache_reply'.value = producer.value
  /\ redis_data' = redis_data
  /\ local_cache' = local_cache

Qualifying(cs, current_domain) ==
  {m \in cs.meta :
     /\ current_domain \in m.cross_domain_relevance
     /\ m.expires_at > cs.now
     /\ \E e \in (IF cs.redis_client THEN cs.redis ELSE cs.local) :
          e.key = m.cache_key /\ e.expires_at > cs.now}

\* The list holds, in descending score order, the (up to) SuggestionLimit
\* highest-scoring of the qualifying rows, and nothing else.
TopQualifying(list, cs, current_domain) ==
  LET rows == Qualifying(cs, current_domain)
      listed == {list[i].key : i \in 1..Len(list)}
      Score(k) == CalculateRelevanceScore(CHOOSE m \in rows : m.cache_key = k, cs.now)
  IN /\ listed \subseteq {m.cache_key : m \in rows}
     /\ Len(list) = Min(SuggestionLimit, Cardinality(rows))
     /\ Cardinality(listed) = Len(list)
     /\ \A i, j \in 1..Len(list) : i < j => list[i].relevance_score >= list[j].relevance_score
     /\ \A m \in rows : m.cache_key \notin listed
          => \A k \in listed : Score(k) >= CalculateRelevanceScore(m, cs.now)

\* C29: get_cross_domain_suggestions(current_domain), with both stores
\* answering, returns in descending score order the up to five highest-scoring
\* entries that are relevant to current_domain, not expired and live under the
\* key they were set with, and no other entry.
C29_SuggestionsAreTopQualifying ==
  [][\A domain \in CacheDomains :
       GetCrossDomainSuggestions(domain, {})
         => TopQualifying(cache_reply'.suggestions, CacheState, domain)]_vars

\* C29 as far as it holds: every suggestion returned qualifies, and the list
\* is in descending score order.
C29_SuggestionsQualify ==
  [][\A domain \in CacheDomains :
       GetCrossDomainSuggestions(domain, {})
         => LET list == cache_reply'.suggestions
            IN /\ {list[i].key : i \in 1..Len(list)}
                    \subseteq {m.cache_key : m \in Qualifying(CacheState, domain)}
               /\ \A i, j \in 1..Len(list) :
                    i < j => list[i].relevance_score >= list[j].relevance_score]_vars

\* C30: after a set that reports success, temporal_cache holds exactly one row
\* for the cache key, with the domain, the expiry and the
\* cross_domain_relevance of that set.
C30_MetadataRowAfterSet ==
  [][\A call \in SetCalls, faults \in CacheFaultSets :
       Set(call, faults) /\ cache_reply'.ok
         => LET cache_key == GenerateCacheKey(call.domain, call.key)
                rows == {m \in temporal_cache' : m.cache_key = cache_key}
            IN /\ Cardinality(rows) = 1
               /\ \A m \in rows :
                    /\ m.domain = call.domain
                    /\ m.expires_at = cache_now + TtlOr(call.ttl)
                    /\ m.cross_domain_relevance = call.cross_domain_relevance]_vars

\* C30 with the database answering: the row is there and carries the set's
\* domain, expiry and relevance.
C30_MetadataRowWhenDatabaseAnswers ==
  [][\A call \in SetCalls, faults \in CacheFaultSets :
       Set(call, faults) /\ cache_reply'.ok /\ "db" \notin faults
         => LET cache_key == GenerateCacheKey(call.domain, call.key)
                rows == {m \in temporal_cache' : m.cache_key = cache_key}
            IN /\ Cardinality(rows) = 1
               /\ \A m \in rows :
                    /\ m.domain = call.domain
                    /\ m.expires_at = cache_now + TtlOr(call.ttl)
                    /\ m.cross_domain_relevance = call.cross_domain_relevance]_vars

\* The entries of history that contribute to the template: inside its time
\* window and holding at least one of its triggers.
Contributing(name, history) ==
  {i \in 1..Len(history) :
     /\ history[i].age <= PatternTemplates[name].time_window
     /\ history[i].triggers \cap PatternTemplates[name].triggers # {}}

InWindow(name, history) ==
  {i \in 1..Len(history) : history[i].age <= PatternTemplates[name].time_window}

LastSeenIsNewestContributing(session_id) ==
  \A i \in 1..Len(analysis'.returned) :
    LET p == analysis'.returned[i]
        history == trigger_history'[session_id]
    IN p.last_seen = LastSeen(history, Contributing(p.name, history))

LastSeenIsNewestInWindow(session_id) ==
  \A i \in 1..Len(analysis'.returned) :
    LET p == analysis'.returned[i]
        history == trigger_history'[session_id]
    IN p.last_seen = LastSeen(history, InWindow(p.name, history))

\* C31: the last_seen of every Pattern that analyze_conversation returns is
\* the timestamp of the newest history entry that contributed a trigger of the
\* template; an entry in the window without such a trigger does not move it.
C31_LastSeenIsNewestContributing ==
  [][\A call \in PatternCalls, db_ok \in BOOLEAN :
       AnalyzeConversation(call[1], call[2], call[3], db_ok)
         => LastSeenIsNewestContributing(call[3])]_vars

\* What holds instead: last_seen is the timestamp of the newest entry inside
\* the template's time window, whether it contributed or not.
C31_LastSeenIsNewestInWindow ==
  [][\A call \in PatternCalls, db_ok \in BOOLEAN :
       AnalyzeConversation(call[1], call[2], call[3], db_ok)
         => LastSeenIsNewestInWindow(call[3])]_vars

\* A pattern was returned by a call whose own entry holds none of its triggers.
C31_Witness ==
  /\ analysis.outcome = "returned"
  /\ \E i \in 1..Len(analysis.returned) :
       LET p == analysis.returned[i]
           history == trigger_history[analysis.session]
       IN /\ p.last_seen = 0
          /\ Len(history) = 3
          /\ history[Len(history)].age = 0
          /\ history[Len(history)].triggers \cap PatternTemplates[p.name].triggers = {}

\* The history with every entry stamped now.
Fresh(history) == [i \in 1..Len(history) |-> [history[i] EXCEPT !.age = 0]]

MatchesFromWindowOnly(session_id) ==
  LET history == trigger_history'[session_id]
  IN /\ \A i \in 1..Len(analysis'.returned) :
          LET p == analysis'.returned[i]
              from == Contributing(p.name, history)
          IN /\ p.domains = {history[j].domain : j \in from}
             /\ p.triggers =
                  UNION {history[j].triggers \cap PatternTemplates[p.name].triggers : j \in from}
             /\ p.frequency = MatchedCount(history, PatternTemplates[p.name], from)
     /\ \A name \in TemplateNames :
          Cardinality({history[j].domain : j \in Contributing(name, history)})
              < PatternTemplates[name].min_domains
            => name \notin ReturnedNames(analysis')

\* C32: only the entries stamped within the template's time_window before the
\* analysis give domains and triggers to its match; a template whose
\* contributing entries have aged past the window is no longer detected,
\* though the entries are still in the history.
C32_OnlyWindowEntriesContribute ==
  [][\A call \in PatternCalls, db_ok \in BOOLEAN :
       AnalyzeConversation(call[1], call[2], call[3], db_ok)
         => MatchesFromWindowOnly(call[3])]_vars

\* A call returned no pattern from a history that still holds, outside the
\* window, the entries that made financial_planning_event detected before.
C32_Witness ==
  /\ analysis.outcome = "returned"
  /\ analysis.returned = <<>>
  /\ <<"financial_planning_event", 648>> \in pattern_rows
  /\ LET history == trigger_history[analysis.session]
     IN /\ Len(history) = 3
        /\ history[3].age = 0
        /\ CheckPatternTemplate("financial_planning_event", Fresh(history)).name # "None"

\* -------------------------------------- claims on the pipeline's side effects

\* How often the invocation has started the step.
StepCount(step) == Cardinality({i \in 1..Len(inv.steps) : inv.steps[i] = step})

\* C33: an invocation that is over has run pattern analysis exactly once when
\* its arguments hold 'query' or 'context', and not at all otherwise; the
\* trigger history holds no more entries than there were invocations, and none
\* for an invocation without either field.
C33_AnalysisOncePerTextInvocation ==
  InvocationDone =>
    /\ StepCount("pattern") = (IF HasText(inv.kw) THEN 1 ELSE 0)
    /\ Len(trigger_history[SessionId])
         <= request_count - (IF HasText(inv.kw) THEN 0 ELSE 1)

\* The second half of C33 alone: an invocation without 'query' and 'context'
\* runs no pattern analysis.
C33_NoAnalysisWithoutText ==
  (InvocationDone /\ ~HasText(inv.kw)) => StepCount("pattern") = 0

\* The knowledge-store records written for tool results.
ToolResultRecords ==
  LET records == {ToolResultRecord(n) : n \in ToolNames}
  IN Cardinality({<<r, k>> \in records \X (1..MaxInvocations) : k <= CopiesIn(r, knowledge)})

\* C34: an invocation whose handler returned a dict or str of at least 50
\* characters has written one knowledge-store record; an invocation whose
\* handler returned something shorter has written none; over all invocations
\* there is at most one record each.
C34_KnowledgeWriteIffSubstantial ==
  /\ ToolResultRecords <= request_count
  /\ (InvocationDone /\ ~inv.hb.raises /\ "knowledge" \notin inv.faults /\ request_count = 1) =>
       ToolResultRecords = (IF inv.hb.substantial THEN 1 ELSE 0)

\* The half of C34 that holds: no invocation with a short result has written a
\* record, and there is never more than one record per invocation.
C34_NoWriteForShortResult ==
  /\ ToolResultRecords <= request_count
  /\ (InvocationDone /\ ~inv.hb.substantial /\ request_count = 1) => ToolResultRecords = 0

C38_OneEntryPerKey ==
  \A key \in cache_store :
    \E n \in ToolNames, kw \in KwargsKinds : key = ToolCacheKey(n, kw)

\* C35: where every analyze_conversation call carries the server's one domain
\* name, no call returns a Pattern and no pattern row is ever stored, whatever
\* the contents and sessions.
C35_SingleDomainNeverDetects ==
  /\ analysis.returned = <<>>
  /\ analysis.stored = {}
  /\ pattern_rows = {}

\* A call has returned for a session whose three entries, all of the server's
\* domain and all inside the window, hold six matches of home_improvement_project.
C35_Witness ==
  /\ analysis.outcome = "returned"
  /\ LET history == trigger_history[analysis.session]
     IN /\ Len(history) = 3
        /\ \A i \in 1..3 : /\ history[i].age = 0
                           /\ history[i].domain = "financial"
                           /\ history[i].triggers = {"renovation", "repair"}

\* ------------------------------------------- claims on the alert bookkeeping

\* The alert write of call c fails in this step.
AlertWriteFails(c) == tc[c].pc = "send" /\ tc'[c].pc = "raised"

\* The thresholds the daily cost read by call c has met.
MetBy(c) == {t \in ThresholdSet : tc[c].daily * 10 >= DailyBudgetLimit * t}

FailedAlertStep ==
  \A c \in Calls :
    /\ AlertWriteFails(c) =>
         /\ \A t \in ThresholdSet :
              t >= Thresholds[tc[c].idx] => AlertKey(tc[c].server, t) \notin alerts_sent'
         /\ alerts_sent' = alerts_sent
         /\ knowledge' = knowledge
         /\ usage_rows' = usage_rows
         /\ \E r \in BagToSet(usage_rows') : r.server = tc[c].server /\ r.cost = tc[c].cost
         /\ tc'[c].exc = "DatabaseError"
    /\ (tc[c].pc = "check" /\ tc'[c].pc # "check"
          /\ \E t \in MetBy(c) : AlertKey(tc[c].server, t) \notin alerts_sent) =>
         /\ tc'[c].pc = "send"
         /\ \A t \in MetBy(c) :
              t < Thresholds[tc'[c].idx] => AlertKey(tc[c].server, t) \in alerts_sent
    /\ ReturnsNow(c) =>
         \A t \in MetBy(c) : AlertKey(tc[c].server, t) \in alerts_sent'
    /\ \A t \in ThresholdSet :
         (AlertKey(tc[c].server, t) \in alerts_sent' \ alerts_sent) =>
           emitted'[<<tc[c].server, t>>] >= 1

\* C36: when the alert row cannot be written, the call raises that failure,
\* the threshold and every higher one stay unmarked (a key is marked only
\* once its row is written), and the usage row the call stored stays; a later
\* call for the server that has read a cost meeting an unmarked threshold goes
\* to write its alert, and does not return before every threshold it has met
\* is marked.
C36_FailedAlertRetried == [][FailedAlertStep]_vars

\* The event of cost 300000 on top of 100000 met 0.5 and 0.8; the 0.5 alert is
\* out and marked, the call was raised out of with the 0.8 alert unwritten.
C36_Witness ==
  /\ tc[1].pc = "raised" /\ tc[1].exc = "DatabaseError"
  /\ tc[1].inp.provider = "OpenAI"
  /\ usage_rows = SetToBag({[server |-> "gergy-financial", cost |-> 100000, recent |-> TRUE],
                            [server |-> "gergy-financial", cost |-> 300000, recent |-> TRUE]})
  /\ alerts_sent = {<<"gergy-financial", 5>>}
  /\ emitted[<<"gergy-financial", 5>>] = 1 /\ emitted[<<"gergy-financial", 8>>] = 0
  /\ AlertRowsFor("gergy-financial", 8) = 0
  /\ resets = 0

\* The next call for the server stands at the alert write for 0.8 again.
C36_WitnessRetry ==
  /\ tc[1].pc = "send" /\ tc[1].idx = 2
  /\ BagCardinality(usage_rows) = 3
  /\ CopiesIn([server |-> "gergy-financial", cost |-> 100000, recent |-> TRUE], usage_rows) = 1
  /\ CopiesIn([server |-> "gergy-financial", cost |-> 300000, recent |-> TRUE], usage_rows) = 1
  /\ alerts_sent = {<<"gergy-financial", 5>>}
  /\ emitted[<<"gergy-financial", 5>>] = 1 /\ emitted[<<"gergy-financial", 8>>] = 0
  /\ resets = 0

\* The fired set holds, with every key, the keys of the lower thresholds of
\* the same server.
DownwardClosed(sent) ==
  \A server \in Servers, t \in ThresholdSet :
    AlertKey(server, t) \in sent =>
      \A u \in ThresholdSet : u < t => AlertKey(server, u) \in sent

\* A step marks keys only for the server of a call that stands at line 161.
MarksOwnServer ==
  \A k \in alerts_sent' \ alerts_sent :
    \E c \in Calls : /\ tc[c].pc = "mark"
                     /\ k = AlertKey(tc[c].server, Thresholds[tc[c].idx])

\* C37: in every state the fired set of each server is downward closed over
\* the thresholds, and a step that marks a key marks it for the server of the
\* call that makes the step and for no other.
C37_FiredSetDownwardClosed == []DownwardClosed(alerts_sent) /\ [][MarksOwnServer]_vars

\* The part of C37 that holds also with calls and resets interleaved.
C37_MarksOwnServer == [][MarksOwnServer]_vars

\* With the calls and the resets made one after the other the fired set is
\* downward closed.
C37_DownwardClosedSequential == DownwardClosed(alerts_sent)

\* After a reset that ran while a call was writing the 0.8 alert, 0.8 is
\* marked and 0.5 is not.
C37_Witness ==
  /\ resets = 1
  /\ AlertKey("gergy-financial", 8) \in alerts_sent
  /\ AlertKey("gergy-financial", 5) \notin alerts_sent

\* ------------------------------------------------ claims on cache statistics

\* sum(self.cache_stats.values())
StatsTotal(stats) == stats.hits + stats.misses + stats.sets + stats.deletes + stats.errors

\* The step adds one to exactly one of the counters and leaves the others.
BumpsOneOf(counters) ==
  \E k \in counters : cache_stats' = [cache_stats EXCEPT ![k] = @ + 1]

\* The get, set and delete calls a get_or_set makes: the get, and the set
\* when value_func was called and returned.
CallsOfGetOrSet ==
  1 + (IF cache_reply'.produced = 1 /\ ~cache_reply'.raised THEN 1 ELSE 0)

\* The get calls a get_cross_domain_suggestions makes: one for every row its
\* query gives.
CallsOfSuggestions(current_domain, faults) ==
  IF "db" \in faults THEN 0
  ELSE Cardinality(RelevantCache(temporal_cache, current_domain, cache_now))

CountsEachCallOnce(fault_sets) ==
  /\ \A kd \in KeyCalls, faults \in fault_sets :
       Get(kd[1], kd[2], faults) => BumpsOneOf({"hits", "misses", "errors"})
  /\ \A call \in SetCalls, faults \in fault_sets :
       Set(call, faults) => BumpsOneOf({"sets", "errors"})
  /\ \A kd \in KeyCalls, faults \in fault_sets :
       Delete(kd[1], kd[2], faults) => BumpsOneOf({"deletes", "errors"})
  /\ \A kd \in KeyCalls, producer \in Producers, faults \in fault_sets :
       GetOrSet(kd[1], producer, kd[2], faults)
         => StatsTotal(cache_stats') = StatsTotal(cache_stats) + CallsOfGetOrSet
  /\ \A domain \in CacheDomains, faults \in fault_sets :
       GetCrossDomainSuggestions(domain, faults)
         => StatsTotal(cache_stats') =
              StatsTotal(cache_stats) + CallsOfSuggestions(domain, faults)

\* C39: every get adds one to exactly one of hits, misses, errors, every set
\* to one of sets, errors, every delete to one of deletes, errors, so that the
\* sum of the five counters grows with every operation by the number of get,
\* set and delete calls completed in it.
C39_StatsCountEachCallOnce == [][CountsEachCallOnce(StatsFaultSets)]_vars

\* What holds: the accounting is exact as long as every value pickles and
\* unpickles.
C39_OnceWhenValuesLoad == [][CountsEachCallOnce(CacheFaultSets)]_vars

\* One set and one get have completed and three counts are on the books: the
\* get counted a hit and an error.
C39_Witness ==
  /\ cache_ops = 2
  /\ cache_reply.op = "get"
  /\ cache_stats = [hits |-> 1, misses |-> 0, sets |-> 1, deletes |-> 0, errors |-> 1]

====
